---- MODULE Spec2Model ----
(***************************************************************************)
(* overlap-tracer: the batched sender (EventSender) and the tracer         *)
(* supervisor (Tracer) that feeds it from journal files and commits read   *)
(* positions to the persisted state.                                       *)
(*                                                                         *)
(* JavaScript runs every callback to its next await without interruption,  *)
(* so one action is one callback (or the part of an async function between *)
(* two awaits).  PendingBatch objects live in a heap and are named by an   *)
(* id, because a flush that is waiting for its response keeps a reference  *)
(* to its batch object after suspendTeam/clearAll removed the object from  *)
(* the Map.                                                                *)
(***************************************************************************)
EXTENDS Integers, Sequences, FiniteSets, TLC

VARIABLES
    sender,       \* Tracer.sender: the current EventSender (see NewSender)
    acked,        \* per team: the events that were in a POST answered 2xx
    posts,        \* per add() number: how many POSTs carried that event
    authCalls,    \* teams for which the onAuthFailure callback has run
    nAdded,       \* number of add() calls made through the sender API
    phase,        \* "running" | "draining" | "stopped" (shuttingDown, exit)
    size,         \* per journal path: number of complete lines in the file
    tracked,      \* Tracer.state.tracked_files (in memory)
    disk,         \* state.json as last written by saveState
    readHeads,    \* Tracer.readHeads
    repoLists,    \* Tracer.repoLists: per team the roster of repo names
    starts,       \* number of times the daemon has been started
    evicted,      \* paths untracked by cleanupRemovedRepos since the last save
    content,      \* per journal path: the bytes of the file
    sessionStates,\* Tracer.sessionStates: per path the SessionParserState
    emitted,      \* per path: the events processFile handed to sender.add
    probe,        \* the run of "overlap check": see IdleProbe
    config,       \* config.json: the teams, in array order
    cliCall,      \* the last addTeam/removeTeam call and what it found
    teamState,    \* team-state.json, the mirror of the teams' sessions
    now,          \* the wall clock, in ticks of TickMs
    poll,         \* the pollTeamState call in progress: see NewPoll
    refresh,      \* the refreshAllRepoLists call in progress: see IdleRefresh
    signals,      \* termination signals this process has received
    files,        \* the bytes of state.json, cache.json, team-state.json
    writing,      \* the save in progress: see NoWrite
    matcher,      \* gitCache and the git lookups made so far: see NewMatcher
    session,      \* the TrackedFile of the journal being routed: see NoSession
    routed,       \* the events processFile handed to sender.add
    accum,        \* the turn numbers in memory and in state.json: see NoTurns
    backfill      \* the `overlap backfill` command: see NoBackfill

\* the bytes of the journals and what the parser made of them; they change
\* in the specification of the journal reader only
journalVars == <<content, sessionStates, emitted>>

\* the state of the command-line tools; the daemon leaves it alone
cliVars == <<config, cliCall>>
\* the team-state poll and the roster refresh as processes of their own
pollVars == <<teamState, now, poll, refresh>>
\* the files at the level of their bytes
fileVars == <<files, writing>>
\* the repo matcher and the routing of one journal's events
matchVars == <<matcher, session, routed>>
restVars == <<fileVars, matchVars, accum, backfill>>
toolVars == <<probe, cliVars, pollVars, signals, restVars>>

vars == <<sender, acked, posts, authCalls, nAdded, phase, size, tracked, disk,
          readHeads, repoLists, starts, evicted, journalVars, toolVars>>

tracerVars == <<phase, size, tracked, disk, readHeads, repoLists, starts,
                evicted, journalVars, toolVars>>

----------------------------------------------------------------------------
(* Program constants and the bounds of the model *)

Teams == {"tA"}
Paths == {"f1"}
Repos == {"r1"}

MAX_RETRIES == 5
MAX_RETRY_DELAY_MS == 60000
SERVER_MAX_BATCH == 100

\* config.tracer.batch_interval_ms of the modelled configuration
ConfigBatchIntervalMs == 2000
\* config.tracer.max_batch_size of the modelled configuration
ConfigMaxBatchSize == 2
\* max_queue_size of the specification (500 there), scaled to the model
MaxQueueSize == 2
\* bounds of the exploration
MaxAdds == 3
\* add() calls in the run that counts POSTs per event
RetryAdds == 2
MaxFileSize == 1
MaxStarts == 2
MaxHeld == 2

Min(a, b) == IF a < b THEN a ELSE b

\* EventSender constructor: this.maxBatchSize
maxBatchSize == Min(ConfigMaxBatchSize, SERVER_MAX_BATCH)

Range(s) == {s[i] : i \in 1..Len(s)}

\* An event: the journal line it was derived from.  Events handed to the
\* sender API directly carry the path "-" and the number of the add() call.
Event(f, k) == [path |-> f, line |-> k]

----------------------------------------------------------------------------
(* EventSender *)

\* the delay without the cap of MAX_RETRY_DELAY_MS
DelayUncapped(interval, k) == interval * 2^k

\* requeueWithBackoff: the delay of the retry scheduled with retryCount k
Delay(interval, k) == Min(interval * 2^k, MAX_RETRY_DELAY_MS)

NoBatch == 0

\* add(): the PendingBatch literal created for a team
NewBatch(t) ==
    [teamUrl |-> t, events |-> <<>>, timer |-> FALSE, retryCount |-> 0,
     retryTimer |-> FALSE, retryDelay |-> 0]

\* new EventSender(...); cb: whether setOnAuthFailure has been called.
\* flushAllWaiting: a flushAll() call has not returned yet; a fetch is
\* awaited when the flush that sent it was started by that call.
NewSender(cb) ==
    [batches        |-> [t \in Teams |-> NoBatch],
     heap           |-> [i \in {} |-> NewBatch("tA")],
     suspendedTeams |-> {},
     onAuthFailure  |-> cb,
     batchIntervalMs |-> ConfigBatchIntervalMs,
     flushAllWaiting |-> FALSE,
     fetches        |-> <<>>]

Live(S, id) == \E t \in DOMAIN S.batches : S.batches[t] = id

\* Batch objects nothing refers to any more are dropped from the heap.
Collect(S) ==
    LET keep == {i \in DOMAIN S.heap :
                    \/ Live(S, i)
                    \/ \E k \in 1..Len(S.fetches) : S.fetches[k].batch = i
                    \/ S.heap[i].retryTimer}
    IN  [S EXCEPT !.heap = [i \in keep |-> S.heap[i]]]

FreshId(S) ==
    CHOOSE i \in 1..(Cardinality(DOMAIN S.heap) + 1) :
        /\ i \notin DOMAIN S.heap
        /\ \A j \in 1..(i - 1) : j \in DOMAIN S.heap

\* suspendTeam(teamUrl).  The removed object keeps no armed timer; its
\* queue is never read again, so it is emptied here.
SuspendTeam(S, t) ==
    LET id == S.batches[t]
        S1 == [S EXCEPT !.suspendedTeams = @ \cup {t}]
    IN  IF id = NoBatch THEN S1
        ELSE [S1 EXCEPT !.batches[t] = NoBatch,
                        !.heap[id] = [@ EXCEPT !.events = <<>>,
                                               !.timer = FALSE,
                                               !.retryTimer = FALSE,
                                               !.retryDelay = 0]]

\* unsuspendTeam(teamUrl)
UnsuspendTeam(S, t) == [S EXCEPT !.suspendedTeams = @ \ {t}]

\* flush(teamUrl) up to its await: the whole queue becomes the body of one
\* POST, the batch timer is cleared (the retry timer is not).
Flush(S, t) ==
    LET id == S.batches[t] IN
    IF id = NoBatch THEN S
    ELSE IF S.heap[id].events = <<>> THEN S
    ELSE [S EXCEPT !.heap[id] = [@ EXCEPT !.events = <<>>, !.timer = FALSE],
                   !.fetches = Append(@, [batch   |-> id,
                                          teamUrl |-> t,
                                          events  |-> S.heap[id].events,
                                          awaited |-> FALSE])]

\* add() without the test of suspendedTeams
AddWhileSuspended(S, t, ev) ==
    LET S1 == IF S.batches[t] # NoBatch THEN S
              ELSE LET n == FreshId(S) IN
                   [S EXCEPT !.batches[t] = n,
                             !.heap = [i \in DOMAIN S.heap \cup {n} |->
                                         IF i = n THEN NewBatch(t)
                                         ELSE S.heap[i]]]
        id == S1.batches[t]
        S2 == [S1 EXCEPT !.heap[id].events = Append(@, ev)]
    IN  IF Len(S2.heap[id].events) >= maxBatchSize THEN Flush(S2, t)
        ELSE IF ~S2.heap[id].timer THEN [S2 EXCEPT !.heap[id].timer = TRUE]
        ELSE S2

\* add(teamUrl, token, event)
Add(S, t, ev) ==
    IF t \in S.suspendedTeams THEN S
    ELSE
    LET S1 == IF S.batches[t] # NoBatch THEN S
              ELSE LET n == FreshId(S) IN
                   [S EXCEPT !.batches[t] = n,
                             !.heap = [i \in DOMAIN S.heap \cup {n} |->
                                         IF i = n THEN NewBatch(t)
                                         ELSE S.heap[i]]]
        id == S1.batches[t]
        S2 == [S1 EXCEPT !.heap[id].events = Append(@, ev)]
    IN  IF Len(S2.heap[id].events) >= maxBatchSize THEN Flush(S2, t)
        ELSE IF ~S2.heap[id].timer THEN [S2 EXCEPT !.heap[id].timer = TRUE]
        ELSE S2

\* a requeue that arms no retry timer
RequeueWithoutTimer(S, id, events) ==
    IF S.heap[id].retryCount + 1 > MAX_RETRIES
    THEN [S EXCEPT !.heap[id].retryCount = 0, !.heap[id].retryDelay = 0]
    ELSE [S EXCEPT !.heap[id] =
            [@ EXCEPT !.retryCount = @ + 1,
                      !.events = IF Live(S, id) THEN events \o @ ELSE <<>>]]

\* requeueWithBackoff(batch, events); batch is the object the flush holds.
\* (The queue of an object that is no longer in the Map is never read.)
\* A retry timer that is still armed is cleared before the new one is set,
\* so one timer per batch object is armed at most; retryDelay is the delay
\* the timer was armed with in the current run of failures (0 once the
\* timer is cleared or has fired, or retryCount is back at 0).
RequeueWithBackoff(S, id, events) ==
    IF S.heap[id].retryCount + 1 > MAX_RETRIES
    THEN [S EXCEPT !.heap[id].retryCount = 0, !.heap[id].retryDelay = 0]
    ELSE [S EXCEPT !.heap[id] =
            [@ EXCEPT !.retryCount = @ + 1,
                      !.events = IF Live(S, id) THEN events \o @ ELSE <<>>,
                      !.retryTimer = TRUE,
                      !.retryDelay = Delay(S.batchIntervalMs,
                                           S.heap[id].retryCount + 1)]]

Statuses == {"ok", "unauthorized", "failed"}

RemoveAt(s, k) == SubSeq(s, 1, k - 1) \o SubSeq(s, k + 1, Len(s))

\* flush(teamUrl) after its await: the response of fetch number k arrived.
\* "failed" is a non-2xx status other than 401, a rejected fetch, or a
\* response whose body cannot be read.
Settle(S, k, status) ==
    LET f  == S.fetches[k]
        S0 == [S EXCEPT !.fetches = RemoveAt(@, k)]
    IN  Collect(
          CASE status = "unauthorized" -> SuspendTeam(S0, f.teamUrl)
            [] status = "failed" -> RequeueWithBackoff(S0, f.batch, f.events)
            [] OTHER -> [S0 EXCEPT !.heap[f.batch].retryCount = 0,
                                   !.heap[f.batch].retryDelay = 0])

\* the setTimeout callback of requeueWithBackoff for batch object id
RetryTimerFired(S, id) ==
    Collect(Flush([S EXCEPT !.heap[id].retryTimer = FALSE,
                            !.heap[id].retryDelay = 0],
                  S.heap[id].teamUrl))

RECURSIVE FlushEach(_, _)
FlushEach(S, ts) ==
    IF ts = {} THEN S
    ELSE LET t == CHOOSE x \in ts : TRUE
         IN  FlushEach(Flush(S, t), ts \ {t})

\* a flushAll that starts the flush of one team only, the others waiting
\* for it
FlushAllSerial(S) ==
    LET S1 == [S EXCEPT !.heap =
                 [i \in DOMAIN S.heap |->
                    IF Live(S, i)
                    THEN [S.heap[i] EXCEPT !.timer = FALSE,
                                           !.retryTimer = FALSE,
                                           !.retryDelay = 0]
                    ELSE S.heap[i]]]
        ts == {t \in DOMAIN S1.batches : S1.batches[t] # NoBatch}
    IN  IF ts = {} THEN Collect(S1)
        ELSE Collect(Flush(S1, CHOOSE t \in ts : TRUE))

\* flushAll(timeoutMs) up to its await
FlushAll(S) ==
    LET S1 == [S EXCEPT !.heap =
                 [i \in DOMAIN S.heap |->
                    IF Live(S, i)
                    THEN [S.heap[i] EXCEPT !.timer = FALSE,
                                           !.retryTimer = FALSE,
                                           !.retryDelay = 0]
                    ELSE S.heap[i]]]
    IN  Collect(FlushEach(S1, {t \in DOMAIN S1.batches :
                                 S1.batches[t] # NoBatch}))

\* clearAll()
ClearAll(S) ==
    Collect([S EXCEPT !.batches = [t \in DOMAIN S.batches |-> NoBatch],
                      !.heap = [i \in DOMAIN S.heap |->
                                  IF Live(S, i)
                                  THEN [S.heap[i] EXCEPT !.events = <<>>,
                                                         !.timer = FALSE,
                                                         !.retryTimer = FALSE,
                                                         !.retryDelay = 0]
                                  ELSE S.heap[i]]])

RECURSIVE SumLen(_, _)
SumLen(S, ts) ==
    IF ts = {} THEN 0
    ELSE LET t == CHOOSE x \in ts : TRUE
         IN  (IF S.batches[t] = NoBatch THEN 0
              ELSE Len(S.heap[S.batches[t]].events)) + SumLen(S, ts \ {t})

\* the events a sender holds: queued or in a POST that waits for its answer
RECURSIVE FetchLen(_, _)
FetchLen(S, k) ==
    IF k = 0 THEN 0 ELSE Len(S.fetches[k].events) + FetchLen(S, k - 1)

\* getPendingCount()
GetPendingCount(S) == SumLen(S, DOMAIN S.batches)

\* The queue of a team (empty when the Map has no batch for it)
Queue(S, t) ==
    IF S.batches[t] = NoBatch THEN <<>> ELSE S.heap[S.batches[t]].events

\* The fetches of a team that wait for their response
InFlight(S, t) == {k \in 1..Len(S.fetches) : S.fetches[k].teamUrl = t}

----------------------------------------------------------------------------
(* The sender's callbacks: timers and responses *)

\* the setTimeout callback armed by add()
BatchTimer(t) ==
    /\ phase # "stopped"
    /\ sender.batches[t] # NoBatch
    /\ sender.heap[sender.batches[t]].timer
    /\ sender' = Flush(sender, t)
    /\ UNCHANGED <<acked, authCalls, nAdded, tracerVars>>

\* the setTimeout callback armed by requeueWithBackoff()
RetryTimer(id) ==
    /\ phase # "stopped"
    /\ id \in DOMAIN sender.heap
    /\ sender.heap[id].retryTimer
    /\ sender' = RetryTimerFired(sender, id)
    /\ UNCHANGED <<acked, authCalls, nAdded, tracerVars>>

\* the server's answer to fetch number k reaches flush()
Respond(k, status) ==
    /\ phase # "stopped"
    /\ k \in 1..Len(sender.fetches)
    /\ sender' = Settle(sender, k, status)
    /\ acked' = IF status = "ok"
                THEN [acked EXCEPT ![sender.fetches[k].teamUrl] =
                                      @ \cup Range(sender.fetches[k].events)]
                ELSE acked
    /\ authCalls' = IF status = "unauthorized" /\ sender.onAuthFailure
                    THEN authCalls \cup {sender.fetches[k].teamUrl}
                    ELSE authCalls
    /\ UNCHANGED <<nAdded, tracerVars>>

Keep == UNCHANGED posts

----------------------------------------------------------------------------
(* The sender driven through its public interface *)

\* a sender step that answers no fetch
Issue(S2) ==
    /\ sender' = S2
    /\ UNCHANGED <<acked, authCalls, tracerVars>>

ApiAdd(t, max) ==
    /\ nAdded < max
    /\ nAdded' = nAdded + 1
    /\ Issue(Add(sender, t, Event("-", nAdded + 1)))

ApiFlush(t) ==
    /\ Queue(sender, t) # <<>>
    /\ UNCHANGED nAdded
    /\ Issue(Flush(sender, t))

ApiFlushAll ==
    /\ \E t \in Teams : sender.batches[t] # NoBatch
    /\ UNCHANGED nAdded
    /\ Issue(FlushAll(sender))

ApiSuspend(t) ==
    /\ t \notin sender.suspendedTeams
    /\ UNCHANGED nAdded
    /\ Issue(Collect(SuspendTeam(sender, t)))

ApiUnsuspend(t) ==
    /\ t \in sender.suspendedTeams
    /\ UNCHANGED nAdded
    /\ Issue(UnsuspendTeam(sender, t))

ApiClearAll ==
    /\ \E t \in Teams : sender.batches[t] # NoBatch
    /\ UNCHANGED nAdded
    /\ Issue(ClearAll(sender))

\* the teams the interface is driven for
ApiTeams == {"tA"}

\* a line number that is null, a function name that is null
NoLine == 0
NoName == ""

\* the probe before it is run
IdleProbe == [pc |-> "idle"]
\* a document of version v is written in two pieces
Doc(v) == <<v, v>>

\* no save is in progress
NoWrite == [pc |-> "idle", saves |-> 0]

FileNames == {"state", "cache", "mirror"}

\* every file holds the document of its first save; the temporary file of
\* the mirror does not exist
FilesIdle ==
    /\ files = [n \in FileNames \cup {"mirror.tmp"} |->
                  IF n \in FileNames THEN Doc(0) ELSE <<>>]
    /\ writing = NoWrite

\* git has not been run in any directory
NoRuns == [p \in {} |-> 0]

\* an empty gitCache; runs: how often `git remote get-url origin` ran in
\* each directory; last: the inputs and the result of the last matchRepo
NewMatcher == [cache |-> [p \in {} |-> ""], runs |-> NoRuns, calls |-> 0,
               last |-> [cwd |-> <<>>]]

\* the journal has no TrackedFile yet
NoSession == [matched |-> FALSE]

MatchIdle ==
    /\ matcher = NewMatcher
    /\ session = NoSession
    /\ routed = {}

\* mem: sessionStates (turnNumber per journal); trk: turn_number of the
\* TrackedFiles in memory; saved: turn_number in state.json; derived: the
\* Prompt events derived so far, with the line they came from
NoTurns == [mem |-> [f \in {} |-> 0], trk |-> [f \in {} |-> 0],
            saved |-> [f \in {} |-> 0], derived |-> {}]

\* the command has not been run; files: the journals whose byte_offset it
\* reset
NoBackfill == [pc |-> "idle", files |-> {}]

RestIdle ==
    /\ FilesIdle
    /\ MatchIdle
    /\ accum = NoTurns
    /\ backfill = NoBackfill

\* no team-state.json
NoMirror == [exists |-> FALSE]

\* no pollTeamState call is in progress; failed: the teams whose fetch
\* failed (non-2xx or a transport error) in the call that returned last
IdlePoll == [pc |-> "idle", failed |-> {}]

\* no refreshAllRepoLists call is in progress
IdleRefresh == [pc |-> "idle"]

PollIdle ==
    /\ teamState = NoMirror
    /\ now = 0
    /\ poll = IdlePoll
    /\ refresh = IdleRefresh

\* no config.json yet: loadConfig() gives teams: []
NoCall == [op |-> "none"]
CliIdle ==
    /\ config = <<>>
    /\ cliCall = NoCall

JournalIdle ==
    /\ content = [f \in Paths |-> <<>>]
    /\ sessionStates = [f \in {} |-> 0]
    /\ emitted = [f \in Paths |-> <<>>]
    /\ probe = IdleProbe
    /\ CliIdle
    /\ PollIdle
    /\ signals = 0
    /\ RestIdle

\* every fetch carries at least one event and every batch object that is
\* kept has a fetch or a timer, so these ranges cover all of them
FetchIds == 1..(2 * (MaxAdds + MaxFileSize))
HeapIds == 1..(2 * (MaxAdds + MaxFileSize) + Cardinality(Teams))

SenderInit ==
    /\ sender = NewSender(TRUE)
    /\ acked = [t \in Teams |-> {}]
    /\ posts = [n \in 1..RetryAdds |-> 0]
    /\ authCalls = {}
    /\ nAdded = 0
    /\ phase = "running"
    /\ size = [f \in Paths |-> 0]
    /\ tracked = [f \in {} |-> 0]
    /\ disk = [f \in {} |-> 0]
    /\ readHeads = [f \in {} |-> 0]
    /\ repoLists = [t \in Teams |-> {}]
    /\ starts = 1
    /\ evicted = {}
    /\ JournalIdle

SenderNext ==
    \/ (\E t \in ApiTeams : ApiAdd(t, MaxAdds)) /\ Keep
    \/ (\E t \in ApiTeams : ApiFlush(t)) /\ Keep
    \/ ApiFlushAll /\ Keep
    \/ (\E t \in ApiTeams : ApiSuspend(t)) /\ Keep
    \/ (\E t \in ApiTeams : ApiUnsuspend(t)) /\ Keep
    \/ ApiClearAll /\ Keep
    \/ (\E t \in ApiTeams : BatchTimer(t)) /\ Keep
    \/ (\E id \in HeapIds : RetryTimer(id)) /\ Keep
    \/ (\E k \in FetchIds, st \in Statuses : Respond(k, st)) /\ Keep

SenderSpec == SenderInit /\ [][SenderNext]_vars

----------------------------------------------------------------------------
(* The sender under add(), its timers and the server's answers alone, with *)
(* the POSTs that carried each event counted                               *)

\* the POSTs issued by a step are the fetches appended by it
NewFetches(S, S2) ==
    {S2.fetches[i] : i \in (Len(S.fetches) + 1)..Len(S2.fetches)}

CountPosts(S, S2) ==
    [n \in 1..RetryAdds |->
        IF \E f \in NewFetches(S, S2) : \E e \in Range(f.events) : e.line = n
        THEN Min(posts[n] + 1, MAX_RETRIES + 2) ELSE posts[n]]

Count == posts' = CountPosts(sender, sender')

RetryNext ==
    \/ (\E t \in ApiTeams : ApiAdd(t, RetryAdds)) /\ Count
    \/ (\E t \in ApiTeams : BatchTimer(t)) /\ Count
    \/ (\E id \in HeapIds : RetryTimer(id)) /\ Count
    \/ (\E k \in FetchIds, st \in Statuses : Respond(k, st)) /\ Count

RetrySpec == SenderInit /\ [][RetryNext]_vars

----------------------------------------------------------------------------
(* The same sender with flushAll(), under fair timers and answers: an     *)
(* armed setTimeout callback runs, and every fetch is settled (answered,   *)
(* rejected or timed out) at some time                                     *)

DrainNext ==
    \/ RetryNext
    \/ ApiFlushAll /\ Count

DrainFairness ==
    /\ WF_vars((\E t \in ApiTeams : BatchTimer(t)) /\ Count)
    /\ WF_vars((\E id \in HeapIds : RetryTimer(id)) /\ Count)
    /\ WF_vars((\E k \in FetchIds, st \in Statuses : Respond(k, st)) /\ Count)

DrainSpec == SenderInit /\ [][DrainNext]_vars /\ DrainFairness

----------------------------------------------------------------------------
(* flushAll() with its caller waiting for it, for two teams *)

FlushTeams == {"tA", "tB"}
\* add() calls in the runs of flushAll
FlushAdds == 2

\* flushAll(timeoutMs) up to its await; the flush promises it collects are
\* those of the fetches its flushes sent
FlushAllCall(S) ==
    LET S2 == FlushAll(S) IN
    [S2 EXCEPT !.flushAllWaiting = TRUE,
               !.fetches = [i \in DOMAIN S2.fetches |->
                              IF i > Len(S.fetches)
                              THEN [S2.fetches[i] EXCEPT !.awaited = TRUE]
                              ELSE S2.fetches[i]]]

\* a client calls flushAll()
FlushAllBegin ==
    /\ ~sender.flushAllWaiting
    /\ UNCHANGED nAdded
    /\ Issue(FlushAllCall(sender))

\* Promise.allSettled(flushPromises) wins the race: every flush returned
FlushAllDone ==
    /\ sender.flushAllWaiting
    /\ \A k \in 1..Len(sender.fetches) : ~sender.fetches[k].awaited
    /\ UNCHANGED nAdded
    /\ Issue([sender EXCEPT !.flushAllWaiting = FALSE])

\* setTimeout(resolve, timeoutMs) wins the race
FlushAllTimeout ==
    /\ sender.flushAllWaiting
    /\ UNCHANGED nAdded
    /\ Issue([sender EXCEPT !.flushAllWaiting = FALSE,
                            !.fetches = [i \in DOMAIN sender.fetches |->
                                           [sender.fetches[i]
                                              EXCEPT !.awaited = FALSE]]])

FlushInit ==
    /\ sender = [NewSender(TRUE) EXCEPT
                   !.batches = [t \in FlushTeams |-> NoBatch]]
    /\ acked = [t \in FlushTeams |-> {}]
    /\ posts = [n \in 1..RetryAdds |-> 0]
    /\ authCalls = {}
    /\ nAdded = 0
    /\ phase = "running"
    /\ size = [f \in Paths |-> 0]
    /\ tracked = [f \in {} |-> 0]
    /\ disk = [f \in {} |-> 0]
    /\ readHeads = [f \in {} |-> 0]
    /\ repoLists = [t \in Teams |-> {}]
    /\ starts = 1
    /\ evicted = {}
    /\ JournalIdle

FlushAllNext ==
    \/ (\E t \in FlushTeams : ApiAdd(t, FlushAdds)) /\ Keep
    \/ (\E t \in FlushTeams : BatchTimer(t)) /\ Keep
    \/ (\E id \in HeapIds : RetryTimer(id)) /\ Keep
    \/ (\E k \in FetchIds, st \in Statuses : Respond(k, st)) /\ Keep
    \/ FlushAllBegin /\ Keep
    \/ FlushAllDone /\ Keep
    \/ FlushAllTimeout /\ Keep

\* the timeout of the race fires however the servers behave
FlushAllSpec ==
    FlushInit /\ [][FlushAllNext]_vars /\ WF_vars(FlushAllTimeout /\ Keep)

----------------------------------------------------------------------------
(* Tracer *)

\* config.teams of the modelled configuration, in array order
TeamOrder == <<"tA">>
ConfigTeams == Teams

\* the repo a journal's cwd resolves to (basename of the cwd)
RepoOf(f) == IF f = "f2" THEN "r2" ELSE "r1"

Put(fn, k, v) == [x \in DOMAIN fn \cup {k} |-> IF x = k THEN v ELSE fn[x]]
Drop(fn, ks) == [x \in DOMAIN fn \ ks |-> fn[x]]

\* matchRepo(cwd, repoLists, gitCache), basename strategy: one match per
\* team whose roster holds the repo, in roster order
MatchRepo(f, lists) ==
    SelectSeq(TeamOrder, LAMBDA t : RepoOf(f) \in lists[t])

\* createTrackedFile(sessionId, cwd, matchedTeams, matchedRepo)
CreateTrackedFile(teams, repo) ==
    [byte_offset |-> 0, matched_teams |-> teams, matched_repo |-> repo]

\* processFile: this.sender.add for each matched team that is configured
RECURSIVE AddToTeams(_, _, _)
AddToTeams(S, teams, ev) ==
    IF teams = <<>> THEN S
    ELSE AddToTeams(IF Head(teams) \in ConfigTeams
                    THEN Add(S, Head(teams), ev) ELSE S,
                    Tail(teams), ev)

\* processFile: the loop over the lines read, from offset a up to b
RECURSIVE AddLines(_, _, _, _, _)
AddLines(S, f, a, b, teams) ==
    IF a >= b THEN S
    ELSE AddLines(AddToTeams(S, teams, Event(f, a)), f, a + 1, b, teams)

\* processFile(filePath, adapter) on T = [sender, tracked, readHeads]
ProcessFile(T, f, lists) ==
    LET currentOffset ==
            IF f \in DOMAIN T.readHeads THEN T.readHeads[f]
            ELSE IF f \in DOMAIN T.tracked THEN T.tracked[f].byte_offset
            ELSE 0
        matches == MatchRepo(f, lists)
    IN  IF currentOffset >= size[f] THEN T
        ELSE IF f \notin DOMAIN T.tracked /\ matches = <<>> THEN T
        ELSE
        LET tr == IF f \in DOMAIN T.tracked THEN T.tracked
                  ELSE Put(T.tracked, f, CreateTrackedFile(matches, RepoOf(f)))
        IN  [sender    |-> AddLines(T.sender, f, currentOffset, size[f],
                                    tr[f].matched_teams),
             tracked   |-> tr,
             readHeads |-> Put(T.readHeads, f, size[f])]

\* scanExistingFiles(adapter)
RECURSIVE ScanExistingFiles(_, _, _)
ScanExistingFiles(T, fs, lists) ==
    IF fs = {} THEN T
    ELSE LET f == CHOOSE x \in fs : TRUE
         IN  ScanExistingFiles(ProcessFile(T, f, lists), fs \ {f}, lists)

\* saveState() committing the read heads whatever the sender holds
SaveStateUnguarded(T) ==
    [f \in DOMAIN T.tracked |->
        IF f \in DOMAIN T.readHeads
        THEN [T.tracked[f] EXCEPT !.byte_offset = T.readHeads[f]]
        ELSE T.tracked[f]]

\* Tracer.saveState(): the tracked_files table it writes to state.json
SaveState(T) ==
    LET hasPending == GetPendingCount(T.sender) > 0
    IN  [f \in DOMAIN T.tracked |->
            IF ~hasPending /\ f \in DOMAIN T.readHeads
            THEN [T.tracked[f] EXCEPT !.byte_offset = T.readHeads[f]]
            ELSE T.tracked[f]]

\* diffRepoLists(oldLists, newLists)
AllRepos(lists) == UNION {lists[t] : t \in Teams}
DiffRepoLists(old, new) ==
    [added   |-> AllRepos(new) \ AllRepos(old),
     removed |-> AllRepos(old) \ AllRepos(new)]

\* the paths cleanupRemovedRepos(removed) untracks
Untracked(T, removed) ==
    {f \in DOMAIN T.tracked : T.tracked[f].matched_repo \in removed}

\* an eviction that leaves the read heads behind
CleanupKeepingReadHeads(T, removed) ==
    [T EXCEPT !.tracked = Drop(@, Untracked(T, removed))]

\* cleanupRemovedRepos(removedRepos)
CleanupRemovedRepos(T, removed) ==
    [T EXCEPT !.tracked = Drop(@, Untracked(T, removed)),
              !.readHeads = Drop(@, Untracked(T, removed))]

\* refreshAllRepoLists() once the rosters have been fetched into new
RefreshAllRepoLists(T, old, new) ==
    LET d  == DiffRepoLists(old, new)
        T1 == IF d.removed # {} THEN CleanupRemovedRepos(T, d.removed) ELSE T
    IN  IF d.added # {} THEN ScanExistingFiles(T1, DOMAIN size, new) ELSE T1

\* what fetchRepos can leave in the cache: a suspended team is skipped, a
\* failed fetch keeps the cached roster, a successful one stores any roster
Fetched(S, old) ==
    {new \in [Teams -> SUBSET {RepoOf(f) : f \in DOMAIN size}] :
        \A t \in S.suspendedTeams : new[t] = old[t]}

Held(S) == GetPendingCount(S) + FetchLen(S, Len(S.fetches))

\* re-scans after a roster change add the same lines again without limit;
\* the exploration stops adding when the sender holds MaxHeld events
Bounded == Held(sender') <= MaxHeld

Mem == [sender |-> sender, tracked |-> tracked, readHeads |-> readHeads]

SetMem(T) ==
    /\ sender' = T.sender
    /\ tracked' = T.tracked
    /\ readHeads' = T.readHeads

\* the agent appends one complete line to a journal
AppendLine(f) ==
    /\ size[f] < MaxFileSize
    /\ size' = [size EXCEPT ![f] = @ + 1]
    /\ UNCHANGED <<journalVars, toolVars>>
    /\ UNCHANGED <<sender, acked, authCalls, nAdded, phase, tracked, disk,
                   readHeads, repoLists, starts, evicted>>

\* the fs.watch callback of watchAdapter
WatchEvent(f) ==
    /\ phase = "running"
    /\ SetMem(ProcessFile(Mem, f, repoLists))
    /\ Bounded
    /\ UNCHANGED <<journalVars, toolVars>>
    /\ UNCHANGED <<acked, authCalls, nAdded, phase, size, disk, repoLists,
                   starts, evicted>>

\* the stateFlushTimer tick
StateFlush ==
    /\ phase = "running"
    /\ tracked' = SaveState(Mem)
    /\ disk' = tracked'
    /\ evicted' = {}
    /\ UNCHANGED <<journalVars, toolVars>>
    /\ UNCHANGED <<sender, acked, authCalls, nAdded, phase, size, readHeads,
                   repoLists, starts>>

\* the repoSyncTimer tick
RepoSync ==
    /\ phase = "running"
    /\ \E new \in Fetched(sender, repoLists) :
        /\ SetMem(RefreshAllRepoLists(Mem, repoLists, new))
        /\ Bounded
        /\ repoLists' = new
        /\ evicted' = evicted \cup
                        Untracked(Mem, DiffRepoLists(repoLists, new).removed)
    /\ UNCHANGED <<journalVars, toolVars>>
    /\ UNCHANGED <<acked, authCalls, nAdded, phase, size, disk, starts>>

\* reloadConfig() (SIGHUP): the rosters are refreshed, then the sender is
\* replaced; what the replaced sender still holds is not followed
ReloadConfig ==
    /\ phase # "stopped"
    /\ \E new \in Fetched(sender, repoLists) :
        LET T == RefreshAllRepoLists(Mem, repoLists, new) IN
        /\ SetMem([T EXCEPT !.sender = NewSender(FALSE)])
        /\ repoLists' = new
        /\ evicted' = evicted \cup
                        Untracked(Mem, DiffRepoLists(repoLists, new).removed)
    /\ UNCHANGED <<journalVars, toolVars>>
    /\ UNCHANGED <<acked, authCalls, nAdded, phase, size, disk, starts>>

\* the team-state poll got a 401 for team t: authFailureHandler
PollAuthFailure(t) ==
    /\ phase = "running"
    /\ t \notin sender.suspendedTeams
    /\ sender' = Collect(SuspendTeam(sender, t))
    /\ UNCHANGED <<acked, authCalls, nAdded, tracerVars>>

\* SIGTERM/SIGINT: shutdown() up to the await of flushAll(5000)
Shutdown ==
    /\ phase = "running"
    /\ phase' = "draining"
    /\ sender' = FlushAll(sender)
    /\ UNCHANGED <<journalVars, toolVars>>
    /\ UNCHANGED <<acked, authCalls, nAdded, size, tracked, disk, readHeads,
                   repoLists, starts, evicted>>

\* a commit that takes a missing read head for 0
CommitReadHeadsOrZero(T) ==
    [f \in DOMAIN T.tracked |->
        [T.tracked[f] EXCEPT !.byte_offset =
            IF f \in DOMAIN T.readHeads THEN T.readHeads[f] ELSE 0]]

\* shutdown(): the read heads are committed whatever is pending
CommitReadHeads(T) ==
    [f \in DOMAIN T.tracked |->
        IF f \in DOMAIN T.readHeads
        THEN [T.tracked[f] EXCEPT !.byte_offset = T.readHeads[f]]
        ELSE T.tracked[f]]

\* shutdown() after flushAll returned (all flushes settled, or 5 s passed):
\* commit, saveState(), process.exit(0)
Exit ==
    /\ phase = "draining"
    /\ phase' = "stopped"
    /\ disk' = SaveState([Mem EXCEPT !.tracked = CommitReadHeads(Mem)])
    /\ tracked' = disk'
    /\ readHeads' = [f \in {} |-> 0]
    /\ sender' = NewSender(TRUE)
    /\ evicted' = {}
    /\ UNCHANGED <<journalVars, toolVars>>
    /\ UNCHANGED <<acked, authCalls, nAdded, size, repoLists, starts>>

\* the process dies without running shutdown()
Crash ==
    /\ phase # "stopped"
    /\ phase' = "stopped"
    /\ tracked' = disk
    /\ readHeads' = [f \in {} |-> 0]
    /\ sender' = NewSender(TRUE)
    /\ evicted' = {}
    /\ UNCHANGED <<journalVars, toolVars>>
    /\ UNCHANGED <<acked, authCalls, nAdded, size, disk, repoLists, starts>>

\* new Tracer() and start(): state.json is loaded, the rosters are
\* refreshed and the journals are scanned
Start ==
    /\ phase = "stopped"
    /\ starts < MaxStarts
    /\ starts' = starts + 1
    /\ phase' = "running"
    /\ \E new \in [Teams -> SUBSET Repos] :
        LET T0 == [sender |-> NewSender(TRUE), tracked |-> disk,
                   readHeads |-> [f \in {} |-> 0]]
            T1 == RefreshAllRepoLists(T0, repoLists, new)
        IN  /\ SetMem(ScanExistingFiles(T1, Paths, new))
            /\ repoLists' = new
            /\ evicted' = Untracked(T0, DiffRepoLists(repoLists, new).removed)
    /\ UNCHANGED <<journalVars, toolVars>>
    /\ UNCHANGED <<acked, authCalls, nAdded, size, disk>>

Init ==
    /\ sender = NewSender(TRUE)
    /\ acked = [t \in Teams |-> {}]
    /\ posts = [n \in 1..RetryAdds |-> 0]
    /\ authCalls = {}
    /\ nAdded = 0
    /\ phase = "stopped"
    /\ size = [f \in Paths |-> 0]
    /\ tracked = [f \in {} |-> 0]
    /\ disk = [f \in {} |-> 0]
    /\ readHeads = [f \in {} |-> 0]
    /\ repoLists = [t \in Teams |-> {}]
    /\ starts = 0
    /\ evicted = {}
    /\ JournalIdle

Next ==
    \/ (\E f \in Paths : AppendLine(f)) /\ Keep
    \/ (\E f \in Paths : WatchEvent(f)) /\ Keep
    \/ StateFlush /\ Keep
    \/ RepoSync /\ Keep
    \/ ReloadConfig /\ Keep
    \/ (\E t \in Teams : PollAuthFailure(t)) /\ Keep
    \/ Shutdown /\ Keep
    \/ Exit /\ Keep
    \/ Crash /\ Keep
    \/ Start /\ Keep
    \/ (\E t \in Teams : BatchTimer(t)) /\ Keep
    \/ (\E id \in HeapIds : RetryTimer(id)) /\ Keep
    \/ (\E k \in FetchIds, st \in Statuses : Respond(k, st)) /\ Keep

Spec == Init /\ [][Next]_vars

----------------------------------------------------------------------------
(* The journal reader: processFile byte by byte, with the Claude Code      *)
(* adapter's parser.  A record is written as two bytes, its body (named by *)
(* the kind of the record) and its closing brace, followed by a newline;   *)
(* a line is valid JSON when it is exactly a body and a closing brace.     *)

\* the records an agent writes to a journal: a line with cwd and gitBranch
\* and no message, a user message with text, an assistant message with a
\* text block, a thinking block and an Edit tool_use, and a result line
\* (which has no cwd)
Kinds == {"system", "user", "assistant", "result"}

\* the other records the parser is given: a line with cwd only, user
\* messages without gitBranch, without cwd or on another branch, assistant
\* messages without gitBranch or with another model
RecordKinds ==
    Kinds \cup {"progress", "user_nobranch", "user_nocwd", "user_dev",
                "assistant_nobranch", "assistant_m2"}

\* parsed.cwd is present
WithCwd == RecordKinds \ {"result", "user_nocwd"}

\* parsed.gitBranch ("" when the record has none)
GitBranchOf(kind) ==
    CASE kind \in {"system", "user", "assistant", "assistant_m2"} -> "main"
      [] kind = "user_dev" -> "dev"
      [] OTHER -> ""

\* parsed.message.model ("" when the record has none)
ModelOf(kind) ==
    CASE kind \in {"assistant", "assistant_nobranch"} -> "m1"
      [] kind = "assistant_m2" -> "m2"
      [] OTHER -> ""

\* parsed.message.role
UserKinds == {"user", "user_nobranch", "user_nocwd", "user_dev"}
AssistantKinds == {"assistant", "assistant_nobranch", "assistant_m2"}

\* getGitBranch(cwd): git resolves the branch of the work tree, or fails
GetGitBranch(git) == IF git THEN "head" ELSE ""

\* records written to a journal in one run
MaxRecords == 2

\* newContent.split("\n")
RECURSIVE Split(_)
Split(bytes) ==
    IF \A i \in 1..Len(bytes) : bytes[i] # "\n" THEN <<bytes>>
    ELSE LET i == CHOOSE j \in 1..Len(bytes) :
                     /\ bytes[j] = "\n"
                     /\ \A h \in 1..(j - 1) : bytes[h] # "\n"
         IN  <<SubSeq(bytes, 1, i - 1)>>
                 \o Split(SubSeq(bytes, i + 1, Len(bytes)))

\* a JSON.parse that accepts a record whose closing brace is missing
JsonParseLenient(line) ==
    IF Len(line) >= 1 /\ line[1] \in RecordKinds THEN line[1] ELSE "invalid"

\* JSON.parse(line): the kind of the record, or "invalid" when it throws
JsonParse(line) ==
    IF Len(line) = 2 /\ line[1] \in RecordKinds /\ line[2] = "}"
    THEN line[1] ELSE "invalid"

\* extractCwdFromLine(line) returns a cwd
ExtractCwdFromLine(line) == JsonParse(line) \in WithCwd

\* the fields every event of the adapter carries
CommonFields ==
    {"event_type", "agent_type", "session_id", "timestamp", "repo_name",
     "user_id"}

\* an IngestEvent derived from line number n of journal f: its type, its
\* response_type ("" when it has none), its turn_number (0 when it has
\* none), the names of the fields that are defined in it, and the values
\* of git_branch and model ("" when undefined)
IngestEvent(f, n, type, rtype, turn, fields) ==
    [path |-> f, line |-> n, event_type |-> type, response_type |-> rtype,
     turn_number |-> turn, fields |-> CommonFields \cup fields,
     git_branch |-> "", model |-> ""]

\* a session_start event with the branch and the model it carries
\* a session_start that leaves out the branch it was given
SessionStartWithoutBranch(f, n, branch, model, fields) ==
    [IngestEvent(f, n, "session_start", "", 0,
                 fields \cup {"cwd"}
                        \cup (IF model # "" THEN {"model"} ELSE {}))
        EXCEPT !.model = model]

SessionStart(f, n, branch, model, fields) ==
    [IngestEvent(f, n, "session_start", "", 0,
                 fields \cup {"cwd"}
                        \cup (IF branch # "" THEN {"git_branch"} ELSE {})
                        \cup (IF model # "" THEN {"model"} ELSE {}))
        EXCEPT !.git_branch = branch, !.model = model]

\* extractFileOp(block, ...) for an Edit block with old_string and new_string
ExtractFileOp(f, n) ==
    IngestEvent(f, n, "file_op", "", 0,
                {"tool_name", "file_path", "operation", "old_string",
                 "new_string"})

\* the events of the blocks of the assistant message, in block order
AssistantEvents(f, n, st) ==
    <<IngestEvent(f, n, "agent_response", "text", st.turnNumber,
                  {"response_text", "response_type", "turn_number"}),
      IngestEvent(f, n, "agent_response", "thinking", st.turnNumber,
                  {"response_text", "response_type", "turn_number"}),
      ExtractFileOp(f, n)>>

\* the SessionParserState processFile creates for a newly tracked file
NewSessionState ==
    [turnNumber |-> 0, filesTouched |-> {}, sessionStartEmitted |-> FALSE,
     gitBranch |-> "", branchUpdateEmitted |-> FALSE, cwd |-> "",
     model |-> "", modelUpdateEmitted |-> FALSE]

\* a backfill test that forgets that the field has been emitted
NeedsBackfillAgain(started, updateEmitted, value) ==
    started /\ value # ""

\* needsBranchBackfill, needsModelBackfill
NeedsBackfill(started, updateEmitted, value) ==
    started /\ ~updateEmitted /\ value # ""

\* a turn counter that is not advanced by a prompt
SameTurn(st) == st.turnNumber

\* sessionState.turnNumber++
NextTurn(st) == st.turnNumber + 1

\* the prompt event of a user message
Prompt(f, n, turn) ==
    IngestEvent(f, n, "prompt", "", turn, {"prompt_text", "turn_number"})

\* parseClaudeCodeLine(line, sessionId, sessionState): the events and the
\* session state it leaves; git tells whether getGitBranch resolves a branch
ParseLine(f, n, line, st, git) ==
    LET kind == JsonParse(line)
        st1  == [st EXCEPT
                   !.gitBranch = IF GitBranchOf(kind) # "" /\ @ = ""
                                 THEN GitBranchOf(kind) ELSE @,
                   !.cwd = IF kind \in WithCwd /\ @ = "" THEN "/repo" ELSE @,
                   !.model = IF ModelOf(kind) # "" /\ @ = ""
                             THEN ModelOf(kind) ELSE @]
    IN  IF kind = "invalid" THEN [events |-> <<>>, st |-> st]
        ELSE IF kind \in WithCwd /\ st1.turnNumber = 0
                /\ ~st1.sessionStartEmitted
        THEN LET branch == IF st1.gitBranch # "" THEN st1.gitBranch
                           ELSE GetGitBranch(git)
                 st2   == [st1 EXCEPT
                             !.sessionStartEmitted = TRUE,
                             !.gitBranch = IF branch # "" THEN branch ELSE @,
                             !.branchUpdateEmitted =
                                 IF branch # "" THEN TRUE ELSE @,
                             !.modelUpdateEmitted =
                                 IF st1.model # "" THEN TRUE ELSE @]
                 start == SessionStart(f, n, branch, st1.model,
                                       {"hostname", "device_name",
                                        "is_remote"})
             IN  IF kind \in UserKinds
                 THEN [events |-> <<start, Prompt(f, n, NextTurn(st2))>>,
                       st |-> [st2 EXCEPT !.turnNumber = NextTurn(st2)]]
                 ELSE [events |-> <<start>>, st |-> st2]
        ELSE
        LET needsBranchBackfill ==
                NeedsBackfill(st1.sessionStartEmitted,
                              st1.branchUpdateEmitted, st1.gitBranch)
            needsModelBackfill ==
                NeedsBackfill(st1.sessionStartEmitted,
                              st1.modelUpdateEmitted, st1.model)
            st2 == [st1 EXCEPT
                      !.branchUpdateEmitted =
                          IF needsBranchBackfill THEN TRUE ELSE @,
                      !.modelUpdateEmitted =
                          IF needsModelBackfill THEN TRUE ELSE @]
            backfillEvents ==
                IF needsBranchBackfill \/ needsModelBackfill
                THEN <<SessionStart(f, n, st1.gitBranch, st1.model, {})>>
                ELSE <<>>
        IN  CASE kind \in UserKinds ->
                   [events |-> backfillEvents \o
                               <<Prompt(f, n, NextTurn(st2))>>,
                    st |-> [st2 EXCEPT !.turnNumber = NextTurn(st2)]]
              [] kind \in AssistantKinds ->
                   [events |-> backfillEvents \o AssistantEvents(f, n, st2),
                    st |-> [st2 EXCEPT !.filesTouched = @ \cup {"a.ts"}]]
              [] kind = "result" ->
                   [events |-> backfillEvents \o
                               <<IngestEvent(f, n, "session_end", "", 0,
                                             {"files_touched"})>>,
                    st |-> st2]
              [] OTHER -> [events |-> backfillEvents, st |-> st2]

\* processFile: the loop over lines, from the one that is line number n of
\* the file; every event is copied with the team's user_id and added for
\* each matched team.  J = [sender, st, emitted].  The cwd of a tracked
\* journal is a git work tree with a branch checked out.
RECURSIVE ParseLines(_, _, _, _, _)
RECURSIVE AddEvents(_, _, _)
AddEvents(S, teams, evs) ==
    IF evs = <<>> THEN S
    ELSE AddEvents(AddToTeams(S, teams, Head(evs)), teams, Tail(evs))

ParseLines(J, f, n, lines, teams) ==
    IF lines = <<>> THEN J
    ELSE LET line == Head(lines) IN
         IF line = <<>>
         THEN ParseLines(J, f, n + 1, Tail(lines), teams)
         ELSE LET r == ParseLine(f, n, line, J.st, TRUE)
              IN  ParseLines([sender  |-> AddEvents(J.sender, teams, r.events),
                              st      |-> r.st,
                              emitted |-> J.emitted \o r.events],
                             f, n + 1, Tail(lines), teams)

\* the number of the line that starts at byte offset a of the bytes
LineAt(bytes, a) == Cardinality({i \in 1..a : bytes[i] = "\n"}) + 1

\* processFile(filePath, adapter) on
\* T = [sender, tracked, readHeads, sessionStates, emitted]
ProcessJournal(T, f, lists) ==
    LET fileSize == Len(content[f])
        currentOffset ==
            IF f \in DOMAIN T.readHeads THEN T.readHeads[f]
            ELSE IF f \in DOMAIN T.tracked THEN T.tracked[f].byte_offset
            ELSE 0
        newContent == SubSeq(content[f], currentOffset + 1, fileSize)
        lines == Split(newContent)
        cwd == \E i \in 1..Len(lines) : ExtractCwdFromLine(lines[i])
        matches == MatchRepo(f, lists)
    IN  IF currentOffset >= fileSize THEN T
        ELSE IF f \notin DOMAIN T.tracked /\ (~cwd \/ matches = <<>>) THEN T
        ELSE
        LET new == f \notin DOMAIN T.tracked
            tr  == IF new
                   THEN Put(T.tracked, f, CreateTrackedFile(matches, RepoOf(f)))
                   ELSE T.tracked
            J   == ParseLines([sender  |-> T.sender,
                               st      |-> IF new THEN NewSessionState
                                           ELSE T.sessionStates[f],
                               emitted |-> T.emitted[f]],
                              f, LineAt(content[f], currentOffset), lines,
                              tr[f].matched_teams)
        IN  [sender        |-> J.sender,
             tracked       |-> tr,
             readHeads     |-> Put(T.readHeads, f,
                                   currentOffset + Len(newContent)),
             sessionStates |-> Put(T.sessionStates, f, J.st),
             emitted       |-> [T.emitted EXCEPT ![f] = J.emitted]]

JournalMem ==
    [sender |-> sender, tracked |-> tracked, readHeads |-> readHeads,
     sessionStates |-> sessionStates, emitted |-> emitted]

\* the agent appends one byte to a journal: the body of a new record, the
\* closing brace of the record it is writing, or the newline that ends it
WriteByte(f) ==
    /\ \E b \in Kinds \cup {"}", "\n"} :
          LET c    == content[f]
              last == IF c = <<>> THEN "\n" ELSE c[Len(c)]
          IN  /\ CASE last = "\n" ->
                        b \in Kinds /\ LineAt(c, Len(c)) <= MaxRecords
                   [] last = "}"  -> b = "\n"
                   [] OTHER       -> b = "}"
              /\ content' = [content EXCEPT ![f] = Append(c, b)]
    /\ UNCHANGED <<sender, acked, authCalls, nAdded, phase, size, tracked,
                   disk, readHeads, repoLists, starts, evicted,
                   sessionStates, emitted, toolVars>>

\* the fs.watch callback of watchAdapter, on a journal of bytes
JournalWatch(f) ==
    /\ LET T == ProcessJournal(JournalMem, f, repoLists)
       IN  /\ sender' = T.sender
           /\ tracked' = T.tracked
           /\ readHeads' = T.readHeads
           /\ sessionStates' = T.sessionStates
           /\ emitted' = T.emitted
    /\ UNCHANGED <<acked, authCalls, nAdded, phase, size, disk, repoLists,
                   starts, evicted, content, toolVars>>

JournalInit ==
    /\ sender = NewSender(TRUE)
    /\ acked = [t \in Teams |-> {}]
    /\ posts = [n \in 1..RetryAdds |-> 0]
    /\ authCalls = {}
    /\ nAdded = 0
    /\ phase = "running"
    /\ size = [f \in Paths |-> 0]
    /\ tracked = [f \in {} |-> 0]
    /\ disk = [f \in {} |-> 0]
    /\ readHeads = [f \in {} |-> 0]
    /\ repoLists = [t \in Teams |-> Repos]
    /\ starts = 1
    /\ evicted = {}
    /\ JournalIdle

\* a record yields at most four events
JournalIds == 1..(4 * MaxRecords + Cardinality(Teams))

JournalNext ==
    \/ (\E f \in Paths : WriteByte(f)) /\ Keep
    \/ (\E f \in Paths : JournalWatch(f)) /\ Keep
    \/ (\E t \in Teams : BatchTimer(t)) /\ Keep
    \/ (\E id \in JournalIds : RetryTimer(id)) /\ Keep
    \/ (\E k \in JournalIds, st \in Statuses : Respond(k, st)) /\ Keep

JournalSpec == JournalInit /\ [][JournalNext]_vars

----------------------------------------------------------------------------
(* The adapter's parser with one session accumulator, given the lines of   *)
(* a journal one by one                                                    *)

\* lines given to the parser in one run
MaxLines == 3

\* lines JSON.parse throws on: a record cut before its closing brace, and
\* the rest of such a record
Malformed == {<<"user">>, <<"}">>}

\* the lines the parser can be given
Lines == {<<kind, "}">> : kind \in RecordKinds} \cup Malformed

\* adapter.parseLine(line, sessionId, sessionState) on the accumulator of
\* journal f with the next line of the journal, which is appended to the
\* journal's bytes
ParseNextLine(f) ==
    \E line \in Lines, git \in BOOLEAN :
        LET n == LineAt(content[f], Len(content[f]))
            r == ParseLine(f, n, line, sessionStates[f], git)
        IN  /\ n <= MaxLines
            /\ content' = [content EXCEPT ![f] = @ \o line \o <<"\n">>]
            /\ sessionStates' = [sessionStates EXCEPT ![f] = r.st]
            /\ emitted' = [emitted EXCEPT ![f] = @ \o r.events]
            /\ UNCHANGED <<sender, acked, posts, authCalls, nAdded, phase,
                           size, tracked, disk, readHeads, repoLists, starts,
                           evicted, toolVars>>

\* the accumulator is new
ParserInit ==
    /\ sender = NewSender(TRUE)
    /\ acked = [t \in Teams |-> {}]
    /\ posts = [n \in 1..RetryAdds |-> 0]
    /\ authCalls = {}
    /\ nAdded = 0
    /\ phase = "running"
    /\ size = [f \in Paths |-> 0]
    /\ tracked = [f \in {} |-> 0]
    /\ disk = [f \in {} |-> 0]
    /\ readHeads = [f \in {} |-> 0]
    /\ repoLists = [t \in Teams |-> Repos]
    /\ starts = 1
    /\ evicted = {}
    /\ content = [f \in Paths |-> <<>>]
    /\ sessionStates = [f \in Paths |-> NewSessionState]
    /\ emitted = [f \in Paths |-> <<>>]
    /\ probe = IdleProbe
    /\ CliIdle
    /\ PollIdle
    /\ signals = 0
    /\ RestIdle

ParserNext == \E f \in Paths : ParseNextLine(f)

ParserSpec == ParserInit /\ [][ParserNext]_vars

----------------------------------------------------------------------------
(* The probe: cmdCheck of "overlap check" from its server query on.  The   *)
(* probe is its own process; it awaits one fetch per configured team and   *)
(* then prints its result.  Display fields of a match (names, urls, the    *)
(* guidance string) are left out; user_id records whose session a match    *)
(* came from and is not a field the probe sees on a server overlap.        *)

\* config.teams of the probe's configuration, in array order, with the
\* user_id of each team
ProbeTeams == <<"tA", "tB">>
ProbeUserId == [t \in {"tA", "tB"} |-> IF t = "tA" THEN "u1" ELSE "u2"]
Users == {"u1", "u2", "u3"}

\* cmdCheck: currentUserIds
CurrentUserIds == {ProbeUserId[ProbeTeams[i]] : i \in 1..Len(ProbeTeams)}

Tiers == {"line", "function", "adjacent", "file"}
Decisions == {"proceed", "warn", "block"}

\* the gap up to which two ranges are adjacent
AdjacentGap == 30

\* the edit the probe is asked about, in file "a.ts" of repo "r1"
Targets ==
    {[start_line |-> r[1], end_line |-> r[2], function_name |-> fn] :
        r \in {<<NoLine, NoLine>>, <<50, 55>>}, fn \in {NoName, "f"}}

\* the regions of the sessions in team-state.json; pl is the repo of the
\* session and the file of the region
Region(pl, r, fn) ==
    [file_path |-> pl[2], start_line |-> r[1], end_line |-> r[2],
     function_name |-> fn]

Sessions ==
    {[user_id |-> u, repo_name |-> pl[1], regions |-> <<Region(pl, r, fn)>>] :
        u \in {"u2", "u3"},
        pl \in {<<"r1", "a.ts">>, <<"r1", "b.ts">>, <<"r2", "a.ts">>},
        r \in {<<NoLine, NoLine>>, <<40, 60>>, <<56, 58>>, <<85, 90>>,
               <<86, 90>>, <<10, 20>>},
        fn \in {NoName, "f", "g"}}

\* readTeamState(): null when the file is missing or stale (fresh is
\* FALSE), else its sessions
Mirrors ==
    {[fresh |-> FALSE, sessions |-> <<>>], [fresh |-> TRUE, sessions |-> <<>>]}
    \cup {[fresh |-> TRUE, sessions |-> <<s>>] : s \in Sessions}
    \cup {[fresh |-> TRUE, sessions |-> <<s1, s2>>] : s1, s2 \in Sessions}

\* an OverlapMatch
OverlapMatch(tier, rg, u) ==
    [tier |-> tier, start_line |-> rg.start_line, end_line |-> rg.end_line,
     function_name |-> rg.function_name, user_id |-> u]

\* the overlaps a server can report
ServerOverlaps ==
    {OverlapMatch(tier, [start_line |-> NoLine, end_line |-> NoLine,
                         function_name |-> NoName], u) :
        tier \in Tiers, u \in Users}

\* how the fetch of one team can end: it throws (timeout, network error),
\* it answers with a status that is not ok, or it answers ok with the
\* server's decision and overlaps
Answers ==
    {[outcome |-> o, decision |-> "proceed", overlaps |-> <<>>] :
        o \in {"unreachable", "notOk"}}
    \cup {[outcome |-> "ok", decision |-> d, overlaps |-> os] :
            d \in Decisions,
            os \in {<<>>} \cup {<<o>> : o \in ServerOverlaps}}

Abs(x) == IF x < 0 THEN -x ELSE x

\* cmdCheck: the tier of a region of the target file
ClassifyTier(target, rg) ==
    LET tier ==
            IF /\ target.start_line # NoLine /\ target.end_line # NoLine
               /\ rg.start_line # NoLine /\ rg.end_line # NoLine
            THEN IF /\ target.start_line <= rg.end_line
                    /\ target.end_line >= rg.start_line
                 THEN "line"
                 ELSE IF Min(Abs(target.start_line - rg.end_line),
                             Abs(target.end_line - rg.start_line))
                            <= AdjacentGap
                      THEN "adjacent" ELSE "file"
            ELSE "file"
    IN  IF /\ tier = "file"
           /\ rg.function_name # NoName /\ target.function_name # NoName
           /\ rg.function_name = target.function_name
        THEN "function" ELSE tier

\* cmdCheck: the matches of the sessions of the mirror, in session order
RECURSIVE MirrorMatches(_, _)
MirrorMatches(target, sessions) ==
    IF sessions = <<>> THEN <<>>
    ELSE LET s  == Head(sessions)
             rs == SelectSeq(s.regions, LAMBDA rg : rg.file_path = "a.ts")
         IN  (IF s.user_id \in CurrentUserIds \/ s.repo_name # "r1" THEN <<>>
              ELSE [i \in 1..Len(rs) |->
                      OverlapMatch(ClassifyTier(target, rs[i]), rs[i],
                                   s.user_id)])
             \o MirrorMatches(target, Tail(sessions))

\* matches.sort by tierOrder (the sort is stable)
SortByTier(ms) ==
    SelectSeq(ms, LAMBDA x : x.tier = "line")
        \o SelectSeq(ms, LAMBDA x : x.tier = "function")
        \o SelectSeq(ms, LAMBDA x : x.tier = "adjacent")
        \o SelectSeq(ms, LAMBDA x : x.tier = "file")

\* a matches list that always warns
DecideWarn(ms) == IF ms = <<>> THEN "proceed" ELSE "warn"

\* the decision of both paths: hasHardOverlap
Decide(ms) ==
    IF ms = <<>> THEN "proceed"
    ELSE IF \E i \in 1..Len(ms) : ms[i].tier \in {"line", "function"}
         THEN "block" ELSE "warn"

\* the probe at the call of tryServerOverlapQuery for a target; answers
\* records how each fetch ended and mirrorRead that readTeamState was called
NewProbe(target) ==
    [pc          |-> "query",
     target      |-> target,
     i           |-> 1,
     allOverlaps |-> <<>>,
     anySuccess  |-> FALSE,
     answers     |-> <<>>,
     mirrorRead  |-> FALSE,
     decision    |-> "proceed",
     overlaps    |-> <<>>]

\* tryServerOverlapQuery: one turn of the loop where a failed team puts an
\* end to the successes before it
RecordAnswerStrict(P, ans) ==
    [P EXCEPT !.i = @ + 1,
              !.answers = Append(@, ans),
              !.anySuccess = ans.outcome = "ok",
              !.allOverlaps = IF ans.outcome = "ok" THEN @ \o ans.overlaps
                              ELSE <<>>]

\* tryServerOverlapQuery: one turn of the loop over the teams, from the
\* settling of the fetch
RecordAnswer(P, ans) ==
    IF ans.outcome # "ok" THEN [P EXCEPT !.i = @ + 1,
                                         !.answers = Append(@, ans)]
    ELSE [P EXCEPT !.i = @ + 1,
                   !.answers = Append(@, ans),
                   !.anySuccess = TRUE,
                   !.allOverlaps = @ \o ans.overlaps]

\* after the loop: the result of tryServerOverlapQuery if a team answered,
\* else the fallback to the local mirror; then outputMatchResult and exit
Conclude(P, mirror) ==
    IF P.anySuccess
    THEN LET ms == SortByTier(P.allOverlaps)
         IN  [P EXCEPT !.pc = "done", !.decision = Decide(ms),
                       !.overlaps = ms]
    ELSE IF ~mirror.fresh \/ mirror.sessions = <<>>
    THEN [P EXCEPT !.pc = "done", !.mirrorRead = TRUE]
    ELSE LET ms == SortByTier(MirrorMatches(P.target, mirror.sessions))
         IN  [P EXCEPT !.pc = "done", !.mirrorRead = TRUE,
                       !.decision = Decide(ms), !.overlaps = ms]

ProbeStep(P) ==
    /\ probe' = P
    /\ UNCHANGED <<sender, acked, posts, authCalls, nAdded, phase, size,
                   tracked, disk, readHeads, repoLists, starts, evicted,
                   journalVars, cliVars, pollVars, signals, restVars>>

\* cmdCheck up to the first fetch: the target has been resolved
CmdCheck ==
    /\ probe.pc = "idle"
    /\ \E target \in Targets :
          ProbeStep(NewProbe(target))

\* the fetch of the team in turn settles
Answer ==
    /\ probe.pc = "query"
    /\ \E ans \in Answers :
          LET P == RecordAnswer(probe, ans)
          IN  IF P.i <= Len(ProbeTeams) THEN ProbeStep(P)
              ELSE IF P.anySuccess
                   THEN ProbeStep(Conclude(P, [fresh |-> FALSE,
                                               sessions |-> <<>>]))
                   ELSE \E mirror \in Mirrors :
                           ProbeStep(Conclude(P, mirror))

ProbeInit == JournalInit

ProbeNext == CmdCheck \/ Answer

ProbeSpec == ProbeInit /\ [][ProbeNext]_vars

----------------------------------------------------------------------------
(* The configuration file under addTeam and removeTeam.  A URL is the      *)
(* sequence of its characters as far as slashes are concerned: a host      *)
(* part, which ends in no slash, and trailing slashes.                      *)

MaxSlashes == 2

\* the part of a URL before its trailing slashes
Hosts == {<<"a">>, <<"a", "/", "b">>}

RECURSIVE Slashes(_)
Slashes(k) == IF k = 0 THEN <<>> ELSE <<"/">> \o Slashes(k - 1)

Urls == {h \o Slashes(k) : h \in Hosts, k \in 0..MaxSlashes}

Tokens == {"tok1", "tok2"}
UserIds == {"u1", "u2"}

\* the TeamConfig values given to addTeam
TeamConfigs == [instance_url : Urls, user_token : Tokens, user_id : UserIds]

\* url.replace(/\/$/, ""): one trailing slash removed
StripOneSlash(url) ==
    IF Len(url) > 0 /\ url[Len(url)] = "/"
    THEN SubSeq(url, 1, Len(url) - 1)
    ELSE url

\* url.replace(/\/+$/, "")
RECURSIVE StripTrailingSlashes(_)
StripTrailingSlashes(url) ==
    IF Len(url) > 0 /\ url[Len(url)] = "/"
    THEN StripTrailingSlashes(SubSeq(url, 1, Len(url) - 1))
    ELSE url

\* config.teams.findIndex((t) => t.instance_url === url), 0 for -1
FindIndex(teams, url) ==
    IF \E i \in 1..Len(teams) : teams[i].instance_url = url
    THEN CHOOSE i \in 1..Len(teams) :
            /\ teams[i].instance_url = url
            /\ \A j \in 1..(i - 1) : teams[j].instance_url # url
    ELSE 0

\* addTeam(team): loadConfig, replace or push, saveConfig
AddTeam(team) ==
    LET t   == [team EXCEPT !.instance_url = StripTrailingSlashes(@)]
        idx == FindIndex(config, t.instance_url)
    IN  /\ config' = IF idx > 0 THEN [config EXCEPT ![idx] = t]
                     ELSE Append(config, t)
        /\ cliCall' = [op |-> "addTeam", url |-> team.instance_url,
                       idx |-> idx]
        /\ UNCHANGED <<sender, acked, posts, authCalls, nAdded, phase, size,
                       tracked, disk, readHeads, repoLists, starts, evicted,
                       journalVars, probe, pollVars, signals, restVars>>

KeepOthers(teams, url) == SelectSeq(teams, LAMBDA t : t.instance_url # url)

\* removeTeam(instanceUrl): loadConfig, filter, saveConfig
RemoveTeam(url) ==
    /\ config' = KeepOthers(config, url)
    /\ cliCall' = [op |-> "removeTeam", url |-> url, idx |-> 0]
    /\ UNCHANGED <<sender, acked, posts, authCalls, nAdded, phase, size,
                   tracked, disk, readHeads, repoLists, starts, evicted,
                   journalVars, probe, pollVars, signals, restVars>>

ConfigInit == JournalInit

ConfigNext ==
    \/ \E team \in TeamConfigs : AddTeam(team)
    \/ \E url \in Urls : RemoveTeam(url)

ConfigSpec == ConfigInit /\ [][ConfigNext]_vars

----------------------------------------------------------------------------
(* The team-state poll and the roster refresh with their awaits, for two   *)
(* teams.  Each is followed from its timer tick to its return; a tick that *)
(* comes while the previous call has not returned is left out.             *)

\* config.teams, in array order
PollTeamOrder == <<"tA", "tB">>
PollTeams == Range(PollTeamOrder)

\* the length of a clock tick and the number of ticks followed
TickMs == 60000
MaxTicks == 3
\* readTeamState: a mirror older than this is stale
StaleAfterMs == 120000
\* add() calls beside the poll and the refresh
PollAdds == 2

\* the answers to a fetch of /api/v1/team-state: 2xx, 401, another status,
\* the fetch throws
PollStatuses == {"ok", "unauthorized", "failed", "error"}

\* result.data.sessions of a 2xx answer
MirrorSessions == {<<>>, <<"s1">>}

\* every configured team, suspended or not
AllTeams(S) == PollTeamOrder

\* config.teams.filter((t) => !sender.isTeamSuspended(t.instance_url))
ActiveTeams(S) ==
    SelectSeq(PollTeamOrder, LAMBDA t : t \notin S.suspendedTeams)

\* pollTeamState(teams, onAuthFailure) at the await of its first fetch.
\* skipped records the teams that were suspended when the call was made.
NewPoll(teams, skipped) ==
    [pc |-> "await", teams |-> teams, i |-> 1, allSessions |-> <<>>,
     failed |-> {}, skipped |-> skipped]

\* the teamStatePollTimer tick
PollTick ==
    /\ phase = "running"
    /\ poll.pc = "idle"
    /\ ActiveTeams(sender) # <<>>
    /\ poll' = NewPoll(ActiveTeams(sender), sender.suspendedTeams)
    /\ UNCHANGED <<sender, acked, authCalls, nAdded, phase, size, tracked,
                   disk, readHeads, repoLists, starts, evicted, journalVars,
                   probe, cliVars, teamState, now, refresh, signals, restVars>>

\* pollTeamState from the answer of one fetch to its next await or, after
\* the last team, through the write of the snapshot; written: writeFileSync
\* and renameSync did not throw
PollAnswer(status, sessions, written) ==
    /\ phase # "stopped"
    /\ poll.pc = "await"
    /\ LET t      == poll.teams[poll.i]
           all    == IF status = "ok" THEN poll.allSessions \o sessions
                     ELSE poll.allSessions
           failed == IF status \in {"failed", "error"}
                     THEN poll.failed \cup {t} ELSE poll.failed
       IN  /\ sender' = IF status = "unauthorized"
                        THEN Collect(SuspendTeam(sender, t)) ELSE sender
           /\ IF poll.i < Len(poll.teams)
              THEN /\ poll' = [poll EXCEPT !.i = @ + 1, !.allSessions = all,
                                           !.failed = failed]
                   /\ UNCHANGED teamState
              ELSE /\ poll' = [pc |-> "idle", failed |-> failed]
                   /\ teamState' =
                        IF written
                        THEN [exists |-> TRUE, updated_at |-> now,
                              instance_url |-> poll.teams[1],
                              sessions |-> all]
                        ELSE teamState
    /\ UNCHANGED <<acked, authCalls, nAdded, phase, size, tracked, disk,
                   readHeads, repoLists, starts, evicted, journalVars,
                   probe, cliVars, now, refresh, signals, restVars>>

\* time passes
Tick ==
    /\ now < MaxTicks
    /\ now' = now + 1
    /\ UNCHANGED <<sender, acked, authCalls, nAdded, phase, size, tracked,
                   disk, readHeads, repoLists, starts, evicted, journalVars,
                   probe, cliVars, teamState, poll, refresh, signals, restVars>>

\* readTeamState() at clock value clock
ReadTeamState(ts, clock) ==
    IF ~ts.exists THEN NoMirror
    ELSE IF (clock - ts.updated_at) * TickMs > StaleAfterMs THEN NoMirror
    ELSE ts

\* refreshAllRepoLists: the next team from position i on that is not
\* suspended (0: none)
NextActive(S, i) ==
    IF \E j \in i..Len(PollTeamOrder) :
          PollTeamOrder[j] \notin S.suspendedTeams
    THEN CHOOSE j \in i..Len(PollTeamOrder) :
            /\ PollTeamOrder[j] \notin S.suspendedTeams
            /\ \A k \in i..(j - 1) : PollTeamOrder[k] \in S.suspendedTeams
    ELSE 0

\* the repoSyncTimer tick: refreshAllRepoLists up to its first fetchRepos
RosterTick ==
    /\ phase = "running"
    /\ refresh.pc = "idle"
    /\ NextActive(sender, 1) # 0
    /\ refresh' = [pc |-> "await", i |-> NextActive(sender, 1),
                   cache |-> repoLists]
    /\ UNCHANGED <<sender, acked, authCalls, nAdded, phase, size, tracked,
                   disk, readHeads, repoLists, starts, evicted, journalVars,
                   probe, cliVars, teamState, now, poll, signals, restVars>>

\* refreshAllRepoLists from the answer of one fetchRepos to its next await
\* or, after the last team, to its end
RosterAnswer(ok, repos) ==
    /\ phase # "stopped"
    /\ refresh.pc = "await"
    /\ LET t     == PollTeamOrder[refresh.i]
           cache == IF ok THEN [refresh.cache EXCEPT ![t] = repos]
                    ELSE refresh.cache
           j     == NextActive(sender, refresh.i + 1)
       IN  IF j # 0
           THEN /\ refresh' = [refresh EXCEPT !.i = j, !.cache = cache]
                /\ UNCHANGED <<sender, tracked, readHeads, repoLists>>
           ELSE /\ refresh' = IdleRefresh
                /\ SetMem(RefreshAllRepoLists(Mem, repoLists, cache))
                /\ repoLists' = cache
    /\ UNCHANGED <<acked, authCalls, nAdded, phase, size, disk, starts,
                   evicted, journalVars, probe, cliVars, teamState, now,
                   poll, signals, restVars>>

\* the daemon after start(): the initial poll, of every configured team, is
\* awaiting its first answer
PollInit ==
    /\ sender = [NewSender(TRUE) EXCEPT
                   !.batches = [t \in PollTeams |-> NoBatch]]
    /\ acked = [t \in PollTeams |-> {}]
    /\ posts = [n \in 1..RetryAdds |-> 0]
    /\ authCalls = {}
    /\ nAdded = 0
    /\ phase = "running"
    /\ size = [f \in Paths |-> 0]
    /\ tracked = [f \in {} |-> 0]
    /\ disk = [f \in {} |-> 0]
    /\ readHeads = [f \in {} |-> 0]
    /\ repoLists = [t \in PollTeams |-> Repos]
    /\ starts = 1
    /\ evicted = {}
    /\ content = [f \in Paths |-> <<>>]
    /\ sessionStates = [f \in {} |-> 0]
    /\ emitted = [f \in Paths |-> <<>>]
    /\ probe = IdleProbe
    /\ CliIdle
    /\ teamState = NoMirror
    /\ now = 0
    /\ poll = NewPoll(PollTeamOrder, {})
    /\ refresh = IdleRefresh
    /\ signals = 0
    /\ RestIdle

\* the poll alone, with the clock
MirrorNext ==
    \/ PollTick /\ Keep
    \/ (\E status \in PollStatuses, sessions \in MirrorSessions,
           written \in BOOLEAN : PollAnswer(status, sessions, written))
       /\ Keep
    \/ Tick /\ Keep

MirrorSpec == PollInit /\ [][MirrorNext]_vars

\* the sender, the poll and the roster refresh side by side; the teams have
\* no session, they answer the poll with 2xx or 401, and their rosters do
\* not change
SuspendNext ==
    \/ (\E t \in PollTeams : ApiAdd(t, PollAdds)) /\ Keep
    \/ (\E t \in PollTeams : BatchTimer(t)) /\ Keep
    \/ (\E id \in HeapIds : RetryTimer(id)) /\ Keep
    \/ (\E k \in FetchIds, st \in Statuses : Respond(k, st)) /\ Keep
    \/ PollTick /\ Keep
    \/ (\E status \in {"ok", "unauthorized"} :
           PollAnswer(status, <<>>, TRUE)) /\ Keep
    \/ RosterTick /\ Keep
    \/ (\E ok \in BOOLEAN : RosterAnswer(ok, Repos)) /\ Keep

SuspendSpec == PollInit /\ [][SuspendNext]_vars

----------------------------------------------------------------------------
(* One run of the daemon, from start() to its exit, with the journal       *)
(* truncated as well as appended to and with every termination signal      *)
(* counted                                                                 *)

\* termination signals sent to one process
MaxSignals == 2

\* the journal is cut back to no line
Truncate(f) ==
    /\ size[f] > 0
    /\ size' = [size EXCEPT ![f] = 0]
    /\ UNCHANGED <<journalVars, toolVars>>
    /\ UNCHANGED <<sender, acked, authCalls, nAdded, phase, tracked, disk,
                   readHeads, repoLists, starts, evicted>>

\* processFile: readHeads.get(filePath) ?? tracked?.byte_offset ?? 0
CurrentOffset(T, f) ==
    IF f \in DOMAIN T.readHeads THEN T.readHeads[f]
    ELSE IF f \in DOMAIN T.tracked THEN T.tracked[f].byte_offset
    ELSE 0

\* the SIGTERM/SIGINT handler, shutdown(signal): it returns at once when
\* shuttingDown is set, and otherwise runs up to the await of flushAll(5000)
Signal ==
    /\ phase # "stopped"
    /\ signals < MaxSignals
    /\ signals' = signals + 1
    /\ IF phase = "draining"
       THEN UNCHANGED <<phase, sender>>
       ELSE /\ phase' = "draining"
            /\ sender' = FlushAll(sender)
    /\ UNCHANGED <<acked, authCalls, nAdded, size, tracked, disk, readHeads,
                   repoLists, starts, evicted, journalVars, probe, cliVars,
                   pollVars, restVars>>

\* the daemon after start() with no journal on disk
RunInit ==
    /\ sender = NewSender(TRUE)
    /\ acked = [t \in Teams |-> {}]
    /\ posts = [n \in 1..RetryAdds |-> 0]
    /\ authCalls = {}
    /\ nAdded = 0
    /\ phase = "running"
    /\ size = [f \in Paths |-> 0]
    /\ tracked = [f \in {} |-> 0]
    /\ disk = [f \in {} |-> 0]
    /\ readHeads = [f \in {} |-> 0]
    /\ repoLists = [t \in Teams |-> Repos]
    /\ starts = 1
    /\ evicted = {}
    /\ JournalIdle

RunNext ==
    \/ (\E f \in Paths : AppendLine(f)) /\ Keep
    \/ (\E f \in Paths : Truncate(f)) /\ Keep
    \/ (\E f \in Paths : WatchEvent(f)) /\ Keep
    \/ StateFlush /\ Keep
    \/ Signal /\ Keep
    \/ Exit /\ Keep
    \/ (\E t \in Teams : BatchTimer(t)) /\ Keep
    \/ (\E id \in HeapIds : RetryTimer(id)) /\ Keep
    \/ (\E k \in FetchIds, st \in Statuses : Respond(k, st)) /\ Keep

RunSpec == RunInit /\ [][RunNext]_vars

----------------------------------------------------------------------------
(* The saves of state.json, cache.json and team-state.json at the level of *)
(* the file system.  writeFileSync opens its file with truncation and then *)
(* writes the data, here in two pieces; renameSync replaces its target in  *)
(* one step.  The process can die between any two steps.                   *)

\* saves followed
MaxSaves == 3

\* the file a save writes to: saveState and saveCache write the durable
\* file itself, pollTeamState writes team-state.tmp.json
Target(name) == IF name = "mirror" THEN "mirror.tmp" ELSE name

\* saveState(state) / saveCache(cache) / the snapshot write of
\* pollTeamState, up to the open of writeFileSync
SaveBegin(name) ==
    /\ writing.pc = "idle"
    /\ writing.saves < MaxSaves
    /\ files' = [files EXCEPT ![Target(name)] = <<>>]
    /\ writing' = [pc |-> "write", name |-> name,
                   doc |-> Doc(writing.saves + 1),
                   saves |-> writing.saves + 1]
    /\ UNCHANGED <<sender, acked, posts, authCalls, nAdded, phase, size,
                   tracked, disk, readHeads, repoLists, starts, evicted,
                   journalVars, probe, cliVars, pollVars, signals,
                   matchVars, accum, backfill>>

\* writeFileSync writes the next piece of the data
WriteChunk ==
    /\ writing.pc = "write"
    /\ LET t    == Target(writing.name)
           next == Append(files[t], writing.doc[Len(files[t]) + 1])
       IN  /\ files' = [files EXCEPT ![t] = next]
           /\ writing' =
                IF Len(next) < Len(writing.doc) THEN writing
                ELSE IF writing.name = "mirror"
                THEN [writing EXCEPT !.pc = "rename"]
                ELSE [pc |-> "idle", saves |-> writing.saves]
    /\ UNCHANGED <<sender, acked, posts, authCalls, nAdded, phase, size,
                   tracked, disk, readHeads, repoLists, starts, evicted,
                   journalVars, probe, cliVars, pollVars, signals,
                   matchVars, accum, backfill>>

\* renameSync(TEAM_STATE_TMP, TEAM_STATE_PATH)
Rename ==
    /\ writing.pc = "rename"
    /\ files' = [files EXCEPT !["mirror"] = files["mirror.tmp"],
                              !["mirror.tmp"] = <<>>]
    /\ writing' = [pc |-> "idle", saves |-> writing.saves]
    /\ UNCHANGED <<sender, acked, posts, authCalls, nAdded, phase, size,
                   tracked, disk, readHeads, repoLists, starts, evicted,
                   journalVars, probe, cliVars, pollVars, signals,
                   matchVars, accum, backfill>>

\* the process dies during a save; the files stay as they are
SaveCrash ==
    /\ writing.pc # "idle"
    /\ writing' = [pc |-> "idle", saves |-> writing.saves]
    /\ UNCHANGED <<sender, acked, posts, authCalls, nAdded, phase, size,
                   tracked, disk, readHeads, repoLists, starts, evicted,
                   journalVars, probe, cliVars, pollVars, signals, files,
                   matchVars, accum, backfill>>

SaveInit == JournalInit

SaveNext ==
    \/ \E name \in FileNames : SaveBegin(name)
    \/ WriteChunk
    \/ Rename
    \/ SaveCrash

SaveSpec == SaveInit /\ [][SaveNext]_vars

----------------------------------------------------------------------------
(* The repo matcher and the routing of one journal's events *)

\* the teams in the iteration order of the repoLists map
RouteTeamOrder == <<"tA", "tB">>

\* the rosters a journal is matched against
RouteRosters ==
    { [tA |-> {"a"}, tB |-> {"b"}],
      [tA |-> {"a", "b"}, tB |-> {"b"}],
      [tA |-> {}, tB |-> {}] }

\* a path is the sequence of its names and separators
RECURSIVE PathOf(_)
PathOf(names) ==
    IF names = <<>> THEN <<>>
    ELSE <<"/", Head(names)>> \o PathOf(Tail(names))

Mono == PathOf(<<"w", "mono">>)
CloneX == PathOf(<<"w", "x">>)
Cwds == {Mono, PathOf(<<"w", "a">>), CloneX}

\* path.basename and path.join
Basename(p) == p[Len(p)]
Join(p, name) == p \o <<"/", name>>

\* readdirSync(cwd): /w/mono holds the checkouts a, b, c and the plain
\* directory d
ReadDir(p) == IF p = Mono THEN <<"a", ".git", "b", "c", "d">> ELSE <<>>
StartsWithDot(name) == name = ".git"

\* the repo name in the origin URL of the checkout at p: /w/x is a clone of
\* a, /w/mono/c a clone of b, the other directories have no origin
Origin(p) ==
    IF p = CloneX THEN "a"
    ELSE IF p = Join(Mono, "c") THEN "b"
    ELSE NoName

Clones == {CloneX, Join(Mono, "c")}

\* resolveGitRemote(cwd) when execSync works in the directories of up and
\* throws (no git, timeout, no origin) in the others; NoName is null
ResolveGitRemote(p, up) == IF p \in up THEN Origin(p) ELSE NoName

\* gitCache.get(p), and resolveGitRemote(p) when that is undefined; only a
\* non-null result is stored
GitLookup(p, cache, up) ==
    IF p \in DOMAIN cache
    THEN [name |-> cache[p], cache |-> cache, ran |-> <<>>]
    ELSE LET resolved == ResolveGitRemote(p, up)
         IN  [name |-> resolved,
              cache |-> IF resolved # NoName THEN Put(cache, p, resolved)
                        ELSE cache,
              ran |-> <<p>>]

AllListed(lists) == UNION {lists[t] : t \in DOMAIN lists}

\* one match per team whose roster holds repo, in map order
MatchesFor(repo, lists, subDir) ==
    LET ts == SelectSeq(RouteTeamOrder, LAMBDA t : repo \in lists[t])
    IN  [i \in 1..Len(ts) |->
            [teamUrl |-> ts[i], repoName |-> repo, subDir |-> subDir]]

\* matchSubdirectories: the loop over the directory entries
RECURSIVE SubdirLoop(_, _, _, _, _)
SubdirLoop(cwd, entries, lists, up, acc) ==
    IF entries = <<>> THEN acc
    ELSE
    LET subName == Head(entries)
        g == GitLookup(Join(cwd, subName), acc.cache, up)
        acc2 ==
            IF StartsWithDot(subName) THEN acc
            ELSE IF subName \in AllListed(lists)
            THEN [acc EXCEPT !.matches =
                                @ \o MatchesFor(subName, lists, subName)]
            ELSE [matches |-> acc.matches \o
                                (IF g.name # NoName
                                    /\ g.name \in AllListed(lists)
                                 THEN MatchesFor(g.name, lists, subName)
                                 ELSE <<>>),
                  cache |-> g.cache,
                  ran |-> acc.ran \o g.ran]
    IN  SubdirLoop(cwd, Tail(entries), lists, up, acc2)

\* matchSubdirectories(cwd, repoLists, gitCache)
MatchSubdirectories(cwd, lists, cache, up) ==
    LET acc == [matches |-> <<>>, cache |-> cache, ran |-> <<>>]
    IN  IF AllListed(lists) = {} THEN acc
        ELSE SubdirLoop(cwd, ReadDir(cwd), lists, up, acc)

\* matchRepo(cwd, repoLists, gitCache) with its three strategies: basename,
\* git remote, sub-directories; the result carries the cache as the call
\* leaves it and the directories git was run in
MatchRepoFull(cwd, lists, cache, up) ==
    LET byName == MatchesFor(Basename(cwd), lists, NoName)
        g == GitLookup(cwd, cache, up)
        byGit == IF g.name # NoName THEN MatchesFor(g.name, lists, NoName)
                 ELSE <<>>
        sub == MatchSubdirectories(cwd, lists, g.cache, up)
    IN  IF byName # <<>>
        THEN [matches |-> byName, cache |-> cache, ran |-> <<>>]
        ELSE IF byGit # <<>>
        THEN [matches |-> byGit, cache |-> g.cache, ran |-> g.ran]
        ELSE [sub EXCEPT !.ran = g.ran \o @]

\* processFile: createTrackedFile for the matches, with sub_dir_repos when
\* the matches have sub-directories; lists: the rosters of the match
NewTracked(cwd, lists, matches) ==
    LET subs == {matches[i].subDir : i \in 1..Len(matches)} \ {NoName}
    IN  [matched |-> TRUE,
         cwd |-> cwd,
         lists |-> lists,
         matched_teams |-> {matches[i].teamUrl : i \in 1..Len(matches)},
         matched_repo |-> matches[1].repoName,
         sub_dir_repos |->
            [d \in subs |->
                (CHOOSE m \in Range(matches) : m.subDir = d).repoName],
         done |-> {}]

\* String.startsWith and String.slice on paths
StartsWith(p, pre) == Len(p) >= Len(pre) /\ SubSeq(p, 1, Len(pre)) = pre
Slice(p, n) == SubSeq(p, n + 1, Len(p))

\* cwd.endsWith("/") ? cwd : cwd + "/"
CwdPrefix(cwd) == IF cwd[Len(cwd)] = "/" THEN cwd ELSE cwd \o <<"/">>

\* relative.indexOf("/")
IndexOfSlash(p) ==
    IF \E i \in 1..Len(p) : p[i] = "/"
    THEN (CHOOSE i \in 1..Len(p) :
            p[i] = "/" /\ \A j \in 1..(i - 1) : p[j] # "/") - 1
    ELSE -1

\* a routing that takes every file for a file of the first sub-directory
MatchFileToFirst(filePath, cwd, subDirRepos) ==
    IF DOMAIN subDirRepos = {} THEN NoName
    ELSE subDirRepos[CHOOSE d \in DOMAIN subDirRepos : TRUE]

\* matchFileToRepo(filePath, cwd, subDirRepos); NoName is null
MatchFileToRepo(filePath, cwd, subDirRepos) ==
    IF filePath = <<>> \/ filePath[1] # "/" THEN NoName
    ELSE IF ~StartsWith(filePath, CwdPrefix(cwd)) THEN NoName
    ELSE
    LET relative == Slice(filePath, Len(CwdPrefix(cwd)))
        firstSlash == IndexOfSlash(relative)
        topDir == IF firstSlash > 0 THEN SubSeq(relative, 1, firstSlash)
                  ELSE relative
    IN  IF Len(topDir) = 1 /\ topDir[1] \in DOMAIN subDirRepos
        THEN subDirRepos[topDir[1]]
        ELSE NoName

\* stripFilePath(filePath, cwd)
StripFilePath(filePath, cwd) ==
    IF filePath = <<>> \/ filePath[1] # "/" THEN filePath
    ELSE IF StartsWith(filePath, CwdPrefix(cwd))
    THEN Slice(filePath, Len(CwdPrefix(cwd)))
    ELSE filePath

\* processFile: the path relative to the sub-directory of the event's repo
StripSubDir(filePath, cwd, subDirRepos, repo) ==
    LET under == {d \in DOMAIN subDirRepos :
                    /\ subDirRepos[d] = repo
                    /\ StartsWith(filePath, CwdPrefix(cwd) \o <<d, "/">>)}
    IN  IF under = {} THEN filePath
        ELSE Slice(filePath,
                   Len(CwdPrefix(cwd) \o <<CHOOSE d \in under : TRUE, "/">>))

\* the session id the agent's journal is named after
SessionId == "S"

\* processFile, the body of the loop over the events of a line: the
\* events handed to sender.add for ev
RouteEvent(tr, ev) ==
    LET subDirMap == DOMAIN tr.sub_dir_repos # {}
        hasPath == ev.file_path # <<>>
        fileRepo == IF subDirMap /\ hasPath
                    THEN MatchFileToRepo(ev.file_path, tr.cwd,
                                         tr.sub_dir_repos)
                    ELSE NoName
        eventRepoName == IF fileRepo # NoName THEN fileRepo
                         ELSE tr.matched_repo
    IN  IF subDirMap /\ hasPath /\ fileRepo = NoName
            /\ ev.event_type = "file_op"
        THEN {}
        ELSE {[team |-> t,
               event_type |-> ev.event_type,
               repo_name |-> eventRepoName,
               session_id |-> IF subDirMap /\ eventRepoName # tr.matched_repo
                              THEN <<SessionId, ":", eventRepoName>>
                              ELSE <<SessionId>>,
               file_path |-> IF subDirMap /\ hasPath
                             THEN StripSubDir(ev.file_path, tr.cwd,
                                              tr.sub_dir_repos, eventRepoName)
                             ELSE StripFilePath(ev.file_path, tr.cwd),
               from |-> ev] : t \in tr.matched_teams}

\* the files the agent's tools are used on; (bash) is the sentinel of a
\* tool without a file
FilePaths ==
    { Mono \o PathOf(<<"a", "x.ts">>),
      Mono \o PathOf(<<"a", "src", "x.ts">>),
      Mono \o PathOf(<<"b", "y.ts">>),
      Mono \o PathOf(<<"c", "z.ts">>),
      Mono \o PathOf(<<"d", "y.ts">>),
      Mono \o PathOf(<<"z.ts">>),
      PathOf(<<"w", "other", "a", "x.ts">>),
      PathOf(<<"w", "x", "x.ts">>),
      <<"(bash)">> }

\* the events the parser derives from a journal
RouteEvents ==
    {[event_type |-> k, file_path |-> <<>>] :
        k \in {"session_start", "prompt"}}
    \cup {[event_type |-> "file_op", file_path |-> p] : p \in FilePaths}

MaxCalls == 2
MaxRouted == 2

\* processFile on a journal without TrackedFile whose first record names
\* cwd: matchRepo against the rosters lists, git working in up
MatchFile(cwd, lists, up) ==
    /\ ~session.matched
    /\ matcher.calls < MaxCalls
    /\ LET r == MatchRepoFull(cwd, lists, matcher.cache, up)
       IN  /\ matcher' =
                [cache |-> r.cache,
                 runs |-> [p \in DOMAIN matcher.runs \cup Range(r.ran) |->
                            (IF p \in DOMAIN matcher.runs
                             THEN matcher.runs[p] ELSE 0)
                            + (IF p \in Range(r.ran) THEN 1 ELSE 0)],
                 calls |-> matcher.calls + 1,
                 last |-> [cwd |-> cwd, lists |-> lists,
                           cache |-> matcher.cache, matches |-> r.matches]]
           /\ session' = IF r.matches = <<>> THEN session
                         ELSE NewTracked(cwd, lists, r.matches)
    /\ UNCHANGED <<sender, acked, posts, authCalls, nAdded, phase, size,
                   tracked, disk, readHeads, repoLists, starts, evicted,
                   journalVars, probe, cliVars, pollVars, signals, fileVars,
                   routed, accum, backfill>>

\* processFile on the next line of the matched journal
Route(ev) ==
    /\ session.matched
    /\ ev \notin session.done
    /\ Cardinality(session.done) < MaxRouted
    /\ routed' = routed \cup RouteEvent(session, ev)
    /\ session' = [session EXCEPT !.done = @ \cup {ev}]
    /\ UNCHANGED <<sender, acked, posts, authCalls, nAdded, phase, size,
                   tracked, disk, readHeads, repoLists, starts, evicted,
                   journalVars, probe, cliVars, pollVars, signals, fileVars,
                   matcher, accum, backfill>>

\* the agent starts another journal
NextJournal ==
    /\ session.matched
    /\ session' = NoSession
    /\ routed' = {}
    /\ UNCHANGED <<sender, acked, posts, authCalls, nAdded, phase, size,
                   tracked, disk, readHeads, repoLists, starts, evicted,
                   journalVars, probe, cliVars, pollVars, signals, fileVars,
                   matcher, accum, backfill>>

RouteInit == JournalInit

RouteNext ==
    \/ \E cwd \in Cwds, lists \in RouteRosters, up \in SUBSET Clones :
            MatchFile(cwd, lists, up)
    \/ \E ev \in RouteEvents : Route(ev)
    \/ NextJournal

RouteSpec == RouteInit /\ [][RouteNext]_vars

----------------------------------------------------------------------------
(* The session accumulators across a restart; every journal line is a     *)
(* user prompt                                                             *)

\* processFile(f) on the accumulators: the lines from the current offset to
\* the end of the file are parsed, each one raises turnNumber and yields a
\* Prompt with the raised number; updateFromParserState copies turnNumber
\* to the TrackedFile.  T is the memory before the call.
ParseTurns(A, T, f) ==
    LET from  == CurrentOffset(T, f)
        after == ProcessFile(T, f, repoLists)
        turn0 == IF f \in DOMAIN T.tracked THEN A.mem[f] ELSE 0
    IN  IF from >= size[f] \/ f \notin DOMAIN after.tracked THEN A
        ELSE [A EXCEPT
                !.mem = Put(@, f, turn0 + (size[f] - from)),
                !.trk = Put(@, f, turn0 + (size[f] - from)),
                !.derived = @ \cup
                    {[path |-> f, line |-> k, turn |-> turn0 + (k - from) + 1] :
                        k \in from..(size[f] - 1)}]

\* scanExistingFiles(adapter) on the accumulators
RECURSIVE ScanTurns(_, _, _)
ScanTurns(A, T, fs) ==
    IF fs = {} THEN A
    ELSE LET f == CHOOSE x \in fs : TRUE
         IN  ScanTurns(ParseTurns(A, T, f), T, fs \ {f})

\* Tracer.saveState(): updateFromParserState for every accumulator with a
\* TrackedFile, whatever the sender holds; the turn numbers it writes
SaveTurns(A, T) ==
    [f \in DOMAIN T.tracked |->
        IF f \in DOMAIN A.mem THEN A.mem[f] ELSE A.trk[f]]

\* the fs.watch callback of watchAdapter
ResumeWatch(f) ==
    /\ phase = "running"
    /\ SetMem(ProcessFile(Mem, f, repoLists))
    /\ Bounded
    /\ accum' = ParseTurns(accum, Mem, f)
    /\ UNCHANGED <<acked, authCalls, nAdded, phase, size, disk, repoLists,
                   starts, evicted, journalVars, probe, cliVars, pollVars,
                   signals, fileVars, matchVars, backfill>>

\* the stateFlushTimer tick
ResumeFlush ==
    /\ phase = "running"
    /\ tracked' = SaveState(Mem)
    /\ disk' = tracked'
    /\ evicted' = {}
    /\ accum' = [accum EXCEPT !.trk = SaveTurns(accum, Mem),
                              !.saved = SaveTurns(accum, Mem)]
    /\ UNCHANGED <<sender, acked, authCalls, nAdded, phase, size, readHeads,
                   repoLists, starts, journalVars, probe, cliVars, pollVars,
                   signals, fileVars, matchVars, backfill>>

\* the process dies without running shutdown()
ResumeCrash ==
    /\ phase = "running"
    /\ phase' = "stopped"
    /\ tracked' = disk
    /\ readHeads' = [f \in {} |-> 0]
    /\ sender' = NewSender(TRUE)
    /\ evicted' = {}
    /\ accum' = [accum EXCEPT !.mem = [f \in {} |-> 0], !.trk = accum.saved]
    /\ UNCHANGED <<acked, authCalls, nAdded, size, disk, repoLists, starts,
                   journalVars, probe, cliVars, pollVars, signals, fileVars,
                   matchVars, backfill>>

\* new Tracer() and start() with the rosters as they were: the
\* accumulators are restored from state.json (toSessionParserState), then
\* the journals are scanned
ResumeStart ==
    /\ phase = "stopped"
    /\ starts < MaxStarts
    /\ starts' = starts + 1
    /\ phase' = "running"
    /\ LET T0 == [sender |-> NewSender(TRUE), tracked |-> disk,
                  readHeads |-> [f \in {} |-> 0]]
       IN  /\ SetMem(ScanExistingFiles(T0, DOMAIN size, repoLists))
           /\ accum' = ScanTurns([accum EXCEPT !.mem = accum.saved,
                                               !.trk = accum.saved],
                                 T0, DOMAIN size)
    /\ UNCHANGED <<acked, authCalls, nAdded, size, disk, repoLists, evicted,
                   journalVars, probe, cliVars, pollVars, signals, fileVars,
                   matchVars, backfill>>

ResumeInit == RunInit

ResumeNext ==
    \/ (\E f \in Paths : AppendLine(f)) /\ Keep
    \/ (\E f \in Paths : ResumeWatch(f)) /\ Keep
    \/ ResumeFlush /\ Keep
    \/ ResumeCrash /\ Keep
    \/ ResumeStart /\ Keep
    \/ (\E t \in Teams : BatchTimer(t)) /\ Keep
    \/ (\E id \in HeapIds : RetryTimer(id)) /\ Keep
    \/ (\E k \in FetchIds, st \in Statuses : Respond(k, st)) /\ Keep

ResumeSpec == ResumeInit /\ [][ResumeNext]_vars

----------------------------------------------------------------------------
(* `overlap backfill` against a running daemon: the command rewrites      *)
(* state.json, sends SIGTERM and starts a new daemon a second later; the   *)
(* old daemon has exited by then                                           *)

\* cmdBackfill, the reset: byte_offset 0 for the tracked files of the
\* selected teams that have one above 0
ResetOffsets(state, targetTeamUrls) ==
    [f \in DOMAIN state |->
        IF Range(state[f].matched_teams) \cap targetTeamUrls # {}
            /\ state[f].byte_offset > 0
        THEN [state[f] EXCEPT !.byte_offset = 0]
        ELSE state[f]]

\* cmdBackfill up to process.kill(pid, "SIGTERM"); with nothing to reset it
\* returns before that
CmdBackfill(targetTeamUrls) ==
    /\ phase = "running"
    /\ backfill.pc = "idle"
    /\ ResetOffsets(disk, targetTeamUrls) # disk
    /\ disk' = ResetOffsets(disk, targetTeamUrls)
    /\ backfill' = [pc |-> "reset",
                    files |-> {f \in DOMAIN disk : disk'[f] # disk[f]}]
    /\ UNCHANGED <<sender, acked, authCalls, nAdded, phase, size, tracked,
                   readHeads, repoLists, starts, evicted, journalVars, probe,
                   cliVars, pollVars, signals, fileVars, matchVars, accum>>

BackfillNext ==
    \/ (\E f \in Paths : AppendLine(f)) /\ Keep
    \/ (\E f \in Paths : WatchEvent(f)) /\ Keep
    \/ StateFlush /\ Keep
    \/ (\E ts \in SUBSET Teams \ {{}} : CmdBackfill(ts)) /\ Keep
    \/ (backfill.pc = "reset" /\ Signal) /\ Keep
    \/ Exit /\ Keep
    \/ (backfill.pc = "reset" /\ Start) /\ Keep
    \/ (\E t \in Teams : BatchTimer(t)) /\ Keep
    \/ (\E id \in HeapIds : RetryTimer(id)) /\ Keep
    \/ (\E k \in FetchIds, st \in Statuses : Respond(k, st)) /\ Keep

BackfillSpec == RunInit /\ [][BackfillNext]_vars

----------------------------------------------------------------------------
(* Roster refreshes over two journals of two repos *)

RosterPaths == {"f1", "f2"}

\* every POST of these runs is answered with a 2xx

RosterInit ==
    /\ sender = NewSender(TRUE)
    /\ acked = [t \in Teams |-> {}]
    /\ posts = [n \in 1..RetryAdds |-> 0]
    /\ authCalls = {}
    /\ nAdded = 0
    /\ phase = "running"
    /\ size = [f \in RosterPaths |-> 0]
    /\ tracked = [f \in {} |-> 0]
    /\ disk = [f \in {} |-> 0]
    /\ readHeads = [f \in {} |-> 0]
    /\ repoLists = [t \in Teams |-> {}]
    /\ starts = 1
    /\ evicted = {}
    /\ JournalIdle

RosterNext ==
    \/ (\E f \in RosterPaths : AppendLine(f)) /\ Keep
    \/ (\E f \in RosterPaths : WatchEvent(f)) /\ Keep
    \/ StateFlush /\ Keep
    \/ RepoSync /\ Keep
    \/ (\E t \in Teams : BatchTimer(t)) /\ Keep
    \/ (\E k \in FetchIds : Respond(k, "ok")) /\ Keep

RosterSpec == RosterInit /\ [][RosterNext]_vars

----------------------------------------------------------------------------
(* Properties of the tracer *)

\* the byte_offset state.json holds for a path (0 when it has no entry)
Persisted(d, f) == IF f \in DOMAIN d THEN d[f].byte_offset ELSE 0

\* the queue q holds an event derived from journal f
HoldsEventOf(q, f) == \E i \in 1..Len(q) : q[i].path = f

\* C1 (no loss on restart): every event derived from a line below the
\* persisted byte_offset of a tracked file has been in a POST answered 2xx
\* by every team of the file's matched_teams.
NoLossOnRestart ==
    \A f \in DOMAIN disk :
        \A k \in 0..(disk[f].byte_offset - 1) :
            \A t \in Range(disk[f].matched_teams) : Event(f, k) \in acked[t]

\* C2 (durability guard): outside of shutdown a step moves the persisted
\* byte_offset of a file forward only if no matched team's queue holds an
\* event of that file, and a state-flush tick taken while such an event is
\* queued leaves the file's byte_offset as it was.
DurabilityGuard ==
    [][phase = "running" =>
         \A f \in DOMAIN disk' :
            LET queued == \E t \in Range(disk'[f].matched_teams) :
                             HoldsEventOf(Queue(sender, t), f)
            IN  /\ Persisted(disk', f) > Persisted(disk, f) => ~queued
                /\ (queued /\ StateFlush)
                     => tracked'[f].byte_offset = tracked[f].byte_offset
      ]_vars

\* in the first run of the daemon, which has not shut down, the state-flush
\* tick has persisted a byte_offset above 0
DurabilityGuardReached ==
    /\ starts = 1
    /\ phase = "running"
    /\ \E f \in DOMAIN disk : disk[f].byte_offset > 0

\* C3 (offset monotonicity), as claimed: no step lowers the byte_offset
\* that state.json holds for a path.
OffsetMonotone ==
    [][\A f \in DOMAIN disk \cap DOMAIN disk' :
          disk'[f].byte_offset >= disk[f].byte_offset
      ]_vars

\* C3 (offset monotonicity), amended: a step lowers the byte_offset that
\* state.json holds for a path only if cleanupRemovedRepos has untracked
\* the path since state.json was last written.
OffsetMonotoneUnlessUntracked ==
    [][\A f \in DOMAIN disk \cap DOMAIN disk' :
          disk'[f].byte_offset < disk[f].byte_offset => f \in evicted
      ]_vars

\* a path with a persisted byte_offset above 0 was untracked after the last
\* write of state.json and is tracked again from 0
UntrackedAndTrackedAgain ==
    \E f \in evicted \cap DOMAIN tracked \cap DOMAIN disk :
        /\ tracked[f].byte_offset = 0
        /\ disk[f].byte_offset > 0
        /\ phase = "running"

----------------------------------------------------------------------------
(* Properties of the sender *)

\* the events of a sequence are in the order of their add() calls
InAddOrder(s) == \A i, j \in 1..Len(s) : i < j => s[i].line < s[j].line

\* a step that issued a POST for team t
Posted(t) ==
    \E f \in NewFetches(sender, sender') : f.teamUrl = t

\* a step that takes a fetch off the list of those waiting for an answer
Answered == Len(sender'.fetches) < Len(sender.fetches)

\* a retry is pending for team t: its batch waits for the retry timer
RetryPending(t) ==
    /\ sender.batches[t] # NoBatch
    /\ sender.heap[sender.batches[t]].retryTimer

\* C4 (per-team delivery order): when an event of a team is acknowledged
\* for the first time, every event of that team acknowledged earlier was
\* passed to add() before it, and the events in the body of a POST are in
\* add() order.
PerTeamDeliveryOrder ==
    [][\A t \in Teams :
          /\ \A e1 \in acked'[t] \ acked[t] :
                \A e2 \in acked[t] : e2.line < e1.line
          /\ \A f \in NewFetches(sender, sender') : InAddOrder(f.events)
      ]_vars

\* C5 (queue bound): the queue of a team never holds more than
\* max_queue_size events.
QueueBound ==
    \A t \in Teams : Len(Queue(sender, t)) <= MaxQueueSize

\* C6 (flush reentrancy): at most one ingest POST per team waits for its
\* response.
FlushReentrancy ==
    \A t \in Teams : Cardinality(InFlight(sender, t)) <= 1

\* C7 (batch size): the body of every ingest POST carries at most
\* max_batch_size events.
BatchSize ==
    \A k \in 1..Len(sender.fetches) :
        Len(sender.fetches[k].events) <= maxBatchSize

\* C8 (backoff inhibition): an add() made while a retry is pending for the
\* team issues no POST.
BackoffInhibition ==
    [][\A t \in Teams :
          (nAdded' = nAdded + 1 /\ RetryPending(t)) => ~Posted(t)
      ]_vars

\* C9 (auth suspension): a 401 answer for team T suspends T, runs the
\* onAuthFailure callback for T and leaves T without queue (the batch is
\* not put back); a suspended team has no pending events, and a step that
\* does not unsuspend T adds nothing to T's queue and issues no POST to T.
AuthSuspension ==
    [][\A t \in Teams :
          /\ \A k \in InFlight(sender, t) :
                (Answered /\ Respond(k, "unauthorized"))
                => /\ t \in sender'.suspendedTeams
                   /\ t \in authCalls'
                   /\ sender'.batches[t] = NoBatch
          /\ (t \in sender.suspendedTeams /\ t \in sender'.suspendedTeams)
                => /\ Queue(sender', t) = <<>>
                   /\ GetPendingCount(sender') = GetPendingCount(sender)
                   /\ ~Posted(t)
          /\ t \in sender'.suspendedTeams => Queue(sender', t) = <<>>
      ]_vars

\* a 401 has been answered for tA, tA is still suspended, every add() has
\* been made and a POST to tA still waits for its answer
AuthSuspensionReached ==
    /\ "tA" \in authCalls
    /\ "tA" \in sender.suspendedTeams
    /\ nAdded = MaxAdds
    /\ InFlight(sender, "tA") # {}

\* C10 (bounded retry): a failed POST puts its events back at the head of
\* the queue and increments retryCount, or drops them and resets retryCount
\* when the incremented count exceeds MAX_RETRIES; retryCount stays in
\* 0..MAX_RETRIES and no event is carried by more than MAX_RETRIES + 1 POSTs.
BoundedRetry ==
    [][/\ \A k \in 1..Len(sender.fetches) :
            (/\ Answered
             /\ Live(sender, sender.fetches[k].batch)
             /\ Respond(k, "failed"))
            => LET f  == sender.fetches[k]
                   rc == sender.heap[f.batch].retryCount
               IN  IF rc + 1 > MAX_RETRIES
                   THEN /\ sender'.heap[f.batch].retryCount = 0
                        /\ Queue(sender', f.teamUrl) = Queue(sender, f.teamUrl)
                   ELSE /\ sender'.heap[f.batch].retryCount = rc + 1
                        /\ Queue(sender', f.teamUrl) =
                              f.events \o Queue(sender, f.teamUrl)
       /\ \A i \in DOMAIN sender'.heap :
            sender'.heap[i].retryCount \in 0..MAX_RETRIES
       /\ \A n \in DOMAIN posts' : posts'[n] <= MAX_RETRIES + 1
      ]_vars

\* values of config.tracer.batch_interval_ms the delay is computed for
Intervals == {1, 1000, 2000, 10000, 30000, 40000, 60000}

\* C11 (backoff delay): the retry armed after a failure that left
\* retryCount = k, 1 <= k <= MAX_RETRIES, has the delay
\* min(batch_interval_ms * 2^k, 60000); the delay is at most 60 s and not
\* below the delay of the failure before it; a 2xx answer leaves retryCount
\* at 0, so that the failure after it is delayed by min(2 * interval, 60000).
BackoffDelay ==
    [][/\ \A i \in Intervals : \A k \in 1..MAX_RETRIES :
            /\ Delay(i, k) = (IF i * 2^k < 60000 THEN i * 2^k ELSE 60000)
            /\ Delay(i, k) <= 60000
            /\ k > 1 => Delay(i, k) >= Delay(i, k - 1)
       /\ \A n \in 1..Len(sender.fetches) :
            LET b == sender.fetches[n].batch IN
            /\ (Answered /\ b \in DOMAIN sender'.heap /\ Respond(n, "failed"))
               => LET k  == sender'.heap[b].retryCount
                      ms == sender.batchIntervalMs
                  IN  k \in 1..MAX_RETRIES =>
                        /\ k = sender.heap[b].retryCount + 1
                        /\ sender'.heap[b].retryTimer
                        /\ sender'.heap[b].retryDelay =
                              (IF ms * 2^k < 60000 THEN ms * 2^k ELSE 60000)
                        /\ sender'.heap[b].retryDelay <= 60000
                        /\ k > 1
                              => sender'.heap[b].retryDelay >=
                                    Delay(ms, sender.heap[b].retryCount)
                        /\ k = 1 => sender'.heap[b].retryDelay =
                              (IF 2 * ms < 60000 THEN 2 * ms ELSE 60000)
            /\ (Answered /\ b \in DOMAIN sender'.heap /\ Respond(n, "ok"))
               => sender'.heap[b].retryCount = 0
      ]_vars

\* a retry is armed after the fifth failure in a row, with the capped delay
BackoffDelayReached ==
    \E i \in DOMAIN sender.heap :
        /\ sender.heap[i].retryTimer
        /\ sender.heap[i].retryCount = MAX_RETRIES
        /\ sender.heap[i].retryDelay = MAX_RETRY_DELAY_MS

\* C12 (flushAll termination): a flushAll() call leaves no batch of the Map
\* with an armed batch timer or retry timer and sends, in the same step, one
\* POST with the whole queue for every team that has events queued, whatever
\* the other teams' POSTs are waiting for; it returns through allSettled
\* only when none of its flushes is pending, and it always returns, also
\* when a server never answers.
FlushAllTermination ==
    /\ [][/\ FlushAllBegin =>
               \A t \in DOMAIN sender.batches :
                  /\ sender'.batches[t] # NoBatch =>
                        /\ ~sender'.heap[sender'.batches[t]].timer
                        /\ ~sender'.heap[sender'.batches[t]].retryTimer
                  /\ Queue(sender, t) # <<>> =>
                        /\ Queue(sender', t) = <<>>
                        /\ \E f \in NewFetches(sender, sender') :
                              /\ f.teamUrl = t
                              /\ f.events = Queue(sender, t)
                              /\ f.awaited
          /\ FlushAllDone =>
               \A k \in 1..Len(sender.fetches) : ~sender.fetches[k].awaited
         ]_vars
    /\ (sender.flushAllWaiting ~> ~sender.flushAllWaiting)

\* a flushAll() call waits while its POSTs to both teams are unanswered
FlushAllWaitsForBoth ==
    /\ sender.flushAllWaiting
    /\ \A t \in FlushTeams :
          \E k \in InFlight(sender, t) : sender.fetches[k].awaited

----------------------------------------------------------------------------
(* Properties of the journal reader *)

\* the events the sender holds for a POST or has in the body of a POST
Enqueued == UNION {Range(Queue(sender, t)) : t \in DOMAIN sender.batches}
InPostBodies ==
    UNION {Range(sender.fetches[k].events) : k \in 1..Len(sender.fetches)}

\* C13 Privacy of edit strings: no event in the body of an ingest POST, and
\* no event enqueued for a team, has an old_string or a new_string field.
PrivacyOfEditStrings ==
    \A e \in Enqueued \cup InPostBodies :
        "old_string" \notin e.fields /\ "new_string" \notin e.fields

\* C14 Signals, not content: no event in the body of an ingest POST carries
\* the text of an assistant text block or of a thinking block.
SignalsNotContent ==
    \A e \in InPostBodies : "response_text" \notin e.fields

\* the offset just after the last newline of the bytes
LastNewline(bytes) ==
    IF \A i \in 1..Len(bytes) : bytes[i] # "\n" THEN 0
    ELSE CHOOSE i \in 1..Len(bytes) :
            bytes[i] = "\n" /\ \A j \in (i + 1)..Len(bytes) : bytes[j] # "\n"

\* the line numbers of the user records that end before offset a
UserLinesBefore(bytes, a) ==
    {n \in 1..MaxRecords :
        /\ 3 * n <= a
        /\ 3 * n <= Len(bytes)
        /\ SubSeq(bytes, 3 * n - 2, 3 * n) = <<"user", "}", "\n">>}

Prompts(f, n) ==
    {i \in 1..Len(emitted[f]) :
        emitted[f][i].line = n /\ emitted[f][i].event_type = "prompt"}

\* C19 Partial trailing line: a line without its newline yields no event
\* and its bytes are not counted, so the read position is always just
\* after a newline (or 0); and each user record that ends before the read
\* position has yielded its prompt exactly once.
PartialTrailingLine ==
    \A f \in DOMAIN readHeads :
        /\ readHeads[f] = LastNewline(SubSeq(content[f], 1, readHeads[f]))
        /\ \A i \in 1..Len(emitted[f]) :
              3 * emitted[f][i].line <= LastNewline(content[f])
        /\ \A n \in UserLinesBefore(content[f], readHeads[f]) :
              Cardinality(Prompts(f, n)) = 1

\* processFile of the whole file in one pass by a tracer that has read
\* nothing yet
OnePass(f) ==
    ProcessJournal([sender        |-> NewSender(TRUE),
                    tracked       |-> [x \in {} |-> 0],
                    readHeads     |-> [x \in {} |-> 0],
                    sessionStates |-> [x \in {} |-> 0],
                    emitted       |-> [x \in Paths |-> <<>>]],
                   f, repoLists).emitted[f]

\* C20 Segmentation independence: when the reads, however the watch events
\* fell, have reached the end of the file, the events they enqueued are in
\* sequence those of one read of the whole file.
SegmentationIndependence ==
    \A f \in DOMAIN readHeads :
        readHeads[f] = Len(content[f]) => emitted[f] = OnePass(f)

----------------------------------------------------------------------------
(* Properties of the probe *)

Output == {probe.overlaps[i] : i \in 1..Len(probe.overlaps)}
Succeeded == {i \in 1..Len(probe.answers) : probe.answers[i].outcome = "ok"}

\* C15 Self-exclusion: no overlap match the probe outputs, on the server
\* path or on the mirror path, belongs to a session of a configured user.
SelfExclusion ==
    probe.pc = "done" => \A o \in Output : o.user_id \notin CurrentUserIds

\* C16 Probe decision: on both paths the decision is block iff an output
\* overlap has tier line or function, warn iff there are overlaps and none
\* has tier line or function, and proceed iff there is no overlap,
\* whatever decision the servers reported.
ProbeDecision ==
    probe.pc = "done" =>
        LET hard == \E o \in Output : o.tier \in {"line", "function"}
        IN  /\ probe.decision = "block" <=> hard
            /\ probe.decision = "warn" <=> (Output # {} /\ ~hard)
            /\ probe.decision = "proceed" <=> Output = {}

\* a server said proceed while its overlap makes the probe block
ServerDecisionOverruled ==
    /\ probe.pc = "done"
    /\ probe.decision = "block"
    /\ \E i \in Succeeded :
          /\ probe.answers[i].decision = "proceed"
          /\ \E j \in 1..Len(probe.answers[i].overlaps) :
                probe.answers[i].overlaps[j].tier = "line"

\* the overlaps of the teams that answered, in team order
RECURSIVE ServerOverlapsOf(_)
ServerOverlapsOf(answers) ==
    IF answers = <<>> THEN <<>>
    ELSE (IF Head(answers).outcome = "ok" THEN Head(answers).overlaps
          ELSE <<>>) \o ServerOverlapsOf(Tail(answers))

\* C17 Fallback condition: the probe reads the local mirror iff every team
\* was unreachable or failed; if a team answered, the output is the
\* overlaps of the teams that answered, those after a failed team too.
FallbackCondition ==
    probe.pc = "done" =>
        /\ probe.mirrorRead <=> Succeeded = {}
        /\ Succeeded # {} =>
              probe.overlaps = SortByTier(ServerOverlapsOf(probe.answers))

\* the first team answered with an overlap, the second timed out, and the
\* overlap is reported without the mirror
ReportedDespiteFailure ==
    /\ probe.pc = "done"
    /\ ~probe.mirrorRead
    /\ probe.answers[1].outcome = "ok"
    /\ probe.answers[2].outcome = "unreachable"
    /\ probe.overlaps # <<>>
    /\ probe.overlaps = probe.answers[1].overlaps

\* the tier of a region against a target as the specification gives it
Intersect(target, o) ==
    target.start_line <= o.end_line /\ target.end_line >= o.start_line
Numeric(target, o) ==
    /\ target.start_line # NoLine /\ target.end_line # NoLine
    /\ o.start_line # NoLine /\ o.end_line # NoLine
SameFunction(target, o) ==
    /\ target.function_name # NoName /\ o.function_name # NoName
    /\ target.function_name = o.function_name
Gap(target, o) ==
    Min(Abs(target.start_line - o.end_line),
        Abs(target.end_line - o.start_line))

\* C18 Fallback tier classification: on the mirror path a match with
\* numeric lines on both sides has tier line iff the ranges intersect; a
\* match without line overlap whose function name equals the target's has
\* tier function; otherwise it has tier adjacent when the gap is at most
\* 30 lines and else tier file.  Target 50-55 against region 40-60 gives
\* tier line and decision block.
FallbackTier ==
    (probe.pc = "done" /\ probe.mirrorRead) =>
        /\ \A o \in Output :
              LET t == probe.target
                  line == Numeric(t, o) /\ Intersect(t, o)
              IN  /\ Numeric(t, o) => (o.tier = "line" <=> line)
                  /\ o.tier = "line" => line
                  /\ (~line /\ SameFunction(t, o)) => o.tier = "function"
                  /\ (~line /\ ~SameFunction(t, o)) =>
                        o.tier = IF Numeric(t, o) /\ Gap(t, o) <= AdjacentGap
                                 THEN "adjacent" ELSE "file"
        /\ (/\ probe.target.start_line = 50 /\ probe.target.end_line = 55
            /\ \E o \in Output : o.start_line = 40 /\ o.end_line = 60)
              => probe.decision = "block"

----------------------------------------------------------------------------
(* Properties of the parser *)

\* the line a step gave to the parser and the events the step emitted
Parsed(f) == content'[f] # content[f]
LastLine(bytes) == Split(bytes)[Len(Split(bytes)) - 1]
GivenKind(f) ==
    IF LastLine(content'[f]) \in Malformed THEN "invalid"
    ELSE LastLine(content'[f])[1]
NewEvents(f) ==
    SubSeq(emitted'[f], Len(emitted[f]) + 1, Len(emitted'[f]))

\* the positions of the session_start events of a sequence: those of the
\* first emission carry the hostname, the backfills do not
Starts(es) == {i \in 1..Len(es) : es[i].event_type = "session_start"}
BaseStarts(es) == {i \in Starts(es) : "hostname" \in es[i].fields}
Backfills(es) == Starts(es) \ BaseStarts(es)

\* C21 SessionStart at most once per field: a record yields a base
\* SessionStart only while the accumulator has emitted none, and a backfill
\* SessionStart only by setting the branch flag or the model flag that was
\* not set; a flag that is set stays set whatever the later records carry,
\* so there is at most one base SessionStart, one backfill of the branch
\* and one backfill of the model.
SessionStartOnce ==
    /\ [][\A f \in Paths :
            LET st  == sessionStates[f]
                st2 == sessionStates'[f]
                new == NewEvents(f)
            IN  Parsed(f) =>
                /\ Cardinality(BaseStarts(new)) <= 1
                /\ BaseStarts(new) # {} =>
                      ~st.sessionStartEmitted /\ st2.sessionStartEmitted
                /\ Cardinality(Backfills(new)) <= 1
                /\ Backfills(new) # {} =>
                      /\ BaseStarts(new) = {}
                      /\ \/ ~st.branchUpdateEmitted /\ st2.branchUpdateEmitted
                         \/ ~st.modelUpdateEmitted /\ st2.modelUpdateEmitted
                /\ st.sessionStartEmitted => st2.sessionStartEmitted
                /\ st.branchUpdateEmitted => st2.branchUpdateEmitted
                /\ st.modelUpdateEmitted => st2.modelUpdateEmitted
         ]_vars
    /\ [](\A f \in Paths :
            /\ Cardinality(BaseStarts(emitted[f])) <= 1
            /\ Cardinality(Backfills(emitted[f])) <= 2)

\* a base SessionStart, one backfill of branch and model, and then a user
\* message on another branch that yields its prompt only
RepeatedBranchIgnored ==
    \E f \in Paths :
        /\ Len(content[f]) = 9
        /\ content[f][1] = "progress"
        /\ content[f][4] = "assistant"
        /\ content[f][7] = "user_dev"
        /\ Cardinality(BaseStarts(emitted[f])) = 1
        /\ Cardinality(Backfills(emitted[f])) = 1
        /\ emitted[f][Len(emitted[f])].event_type = "prompt"
        /\ emitted[f][Len(emitted[f])].line = 3

\* the base SessionStart of the accumulator carried no branch and the
\* branch has been backfilled since
BranchBackfilled(f) ==
    /\ sessionStates[f].branchUpdateEmitted
    /\ \E i \in BaseStarts(emitted[f]) : emitted[f][i].git_branch = ""

\* the parts of the branch backfill that the code and the claim agree on:
\* a first record without a known branch yields one SessionStart with
\* git_branch unset, and the first later record with a gitBranch yields one
\* more SessionStart, with that branch, before its own events
BackfillsBranch(f) ==
    LET st   == sessionStates[f]
        st2  == sessionStates'[f]
        new  == NewEvents(f)
        kind == GivenKind(f)
    IN  /\ (BaseStarts(new) # {} /\ st2.gitBranch = "")
              => /\ Starts(new) = {1}
                 /\ new[1].git_branch = ""
                 /\ "git_branch" \notin new[1].fields
        /\ (/\ st.sessionStartEmitted /\ ~st.branchUpdateEmitted
            /\ kind # "invalid" /\ GitBranchOf(kind) # "")
              => /\ Starts(new) = {1}
                 /\ new[1].git_branch = GitBranchOf(kind)
                 /\ "git_branch" \in new[1].fields

\* C22 Branch backfill, as claimed: after the backfill of the branch no
\* record yields a SessionStart.
BranchBackfill ==
    [][\A f \in Paths :
          Parsed(f) =>
            /\ BackfillsBranch(f)
            /\ BranchBackfilled(f) =>
                  /\ Starts(NewEvents(f)) = {}
                  /\ GivenKind(f) \in UserKinds
                        => Len(NewEvents(f)) = 1
                           /\ NewEvents(f)[1].event_type = "prompt"
      ]_vars

\* C22 Branch backfill, amended: after the backfill of the branch a record
\* yields no SessionStart for the branch; the only SessionStart a later
\* record yields is the one backfill of a model that the record is the
\* first to carry, and a user message yields only its Prompt.
BranchBackfillThenModel ==
    [][\A f \in Paths :
          Parsed(f) =>
            /\ BackfillsBranch(f)
            /\ BranchBackfilled(f) =>
                  /\ \A i \in Starts(NewEvents(f)) :
                        /\ i = 1
                        /\ sessionStates[f].model = ""
                        /\ ~sessionStates[f].modelUpdateEmitted
                        /\ NewEvents(f)[1].model = ModelOf(GivenKind(f))
                        /\ ModelOf(GivenKind(f)) # ""
                  /\ GivenKind(f) \in UserKinds
                        => Len(NewEvents(f)) = 1
                           /\ NewEvents(f)[1].event_type = "prompt"
      ]_vars

\* a SessionStart without branch, then the backfill of branch main before
\* the prompt of the second record, then a third record, a user message,
\* that yielded only its prompt
BranchBackfillReached ==
    \E f \in Paths :
        /\ Len(content[f]) = 9
        /\ content[f][7] \in UserKinds
        /\ Len(emitted[f]) = 4
        /\ emitted[f][1].event_type = "session_start"
        /\ emitted[f][1].git_branch = ""
        /\ emitted[f][2].event_type = "session_start"
        /\ emitted[f][2].git_branch = "main"
        /\ emitted[f][3].event_type = "prompt"
        /\ emitted[f][3].line = 2
        /\ emitted[f][4].event_type = "prompt"
        /\ emitted[f][4].line = 3

PromptsUpTo(es, i) ==
    Cardinality({j \in 1..i : es[j].event_type = "prompt"})

\* C23 Turn numbering: the k-th Prompt of an accumulator carries
\* turn_number k, the accumulator's turn_number is the number of Prompts
\* emitted, and every AgentResponse carries the turn_number of the latest
\* Prompt before it.
TurnNumbering ==
    \A f \in Paths :
        LET es == emitted[f] IN
        /\ sessionStates[f].turnNumber = PromptsUpTo(es, Len(es))
        /\ \A i \in 1..Len(es) :
              /\ es[i].event_type = "prompt"
                    => es[i].turn_number = PromptsUpTo(es, i)
              /\ es[i].event_type = "agent_response"
                    => es[i].turn_number = PromptsUpTo(es, i - 1)

\* two prompts, numbered 1 and 2, and a response in turn 2
SecondTurnReached ==
    \E f \in Paths :
        LET es == emitted[f] IN
        /\ \E i, j, k \in 1..Len(es) :
              /\ i < j /\ j < k
              /\ es[i].event_type = "prompt" /\ es[i].turn_number = 1
              /\ es[j].event_type = "prompt" /\ es[j].turn_number = 2
              /\ es[k].event_type = "agent_response"
              /\ es[k].turn_number = 2

\* C24 Malformed input: a line that is not valid JSON yields no event and
\* leaves every field of the accumulator as it was.
MalformedInput ==
    [][\A f \in Paths :
          (Parsed(f) /\ LastLine(content'[f]) \in Malformed)
              => /\ emitted'[f] = emitted[f]
                 /\ sessionStates'[f] = sessionStates[f]
      ]_vars

\* after a prompt, a malformed line, and then the next record parsed with
\* the turn number the first prompt left
ContinuedAfterMalformed ==
    \E f \in Paths :
        /\ Len(content[f]) = 8
        /\ SubSeq(content[f], 4, 5) = <<"user", "\n">>
        /\ Len(emitted[f]) >= 2
        /\ emitted[f][Len(emitted[f])].event_type = "prompt"
        /\ emitted[f][Len(emitted[f])].line = 3
        /\ emitted[f][Len(emitted[f])].turn_number = 2

----------------------------------------------------------------------------
(* Properties of the configuration *)

\* u and v are equal once their trailing slashes are left out
SameModuloSlashes(u, v) ==
    \E k, l \in 0..(MaxSlashes + 1) : u \o Slashes(k) = v \o Slashes(l)

\* C25 URL canonicalization: no two teams of the configuration have
\* instance_url values that are equal modulo trailing slashes, and addTeam
\* with a URL that differs from a configured team's only by trailing
\* slashes puts the new token and user_id in that team's entry, leaves the
\* other entries as they were and adds no entry.
UrlCanonical ==
    /\ [](\A i, j \in 1..Len(config) :
            SameModuloSlashes(config[i].instance_url, config[j].instance_url)
                => i = j)
    /\ [][\A team \in TeamConfigs :
            (team.instance_url = cliCall'.url /\ AddTeam(team)) =>
              \A i \in 1..Len(config) :
                 SameModuloSlashes(config[i].instance_url, team.instance_url)
                    => /\ Len(config') = Len(config)
                       /\ config'[i].user_token = team.user_token
                       /\ config'[i].user_id = team.user_id
                       /\ \A j \in 1..Len(config) : j # i => config'[j] = config[j]
         ]_vars

\* the second of two teams was replaced by addTeam with its URL followed
\* by two slashes
ReplacedBySlashedUrl ==
    /\ Len(config) = 2
    /\ cliCall.op = "addTeam"
    /\ cliCall.idx = 2
    /\ cliCall.url = config[2].instance_url \o <<"/", "/">>
    /\ config[2].user_token = "tok2"

----------------------------------------------------------------------------
(* Properties of the team-state poll and the roster refresh *)

\* the pollTeamState call returns in this step
PollReturns == poll.pc = "await" /\ poll'.pc = "idle"

\* C26 Mirror preserved on transport error: a poll in which the fetch of a
\* team ended in a transport error or a non-2xx status leaves the mirror
\* file as it was, sessions and updated_at, and a reader takes a mirror for
\* missing once more than 120 s have passed since its updated_at.
MirrorPreserved ==
    /\ [][(PollReturns /\ poll'.failed # {}) => teamState' = teamState]_vars
    /\ [](\A clock \in now..MaxTicks :
            (/\ teamState.exists
             /\ (clock - teamState.updated_at) * TickMs > StaleAfterMs)
                => ReadTeamState(teamState, clock) = NoMirror)

\* the poll sends its request to team t in this step
PollRequest(t) ==
    /\ poll'.pc = "await"
    /\ poll'.teams[poll'.i] = t
    /\ poll.pc = "idle" \/ poll.i # poll'.i

\* the roster refresh sends its request to team t in this step
RosterRequest(t) ==
    /\ refresh'.pc = "await"
    /\ PollTeamOrder[refresh'.i] = t
    /\ refresh.pc = "idle" \/ refresh.i # refresh'.i

FetchesOf(S, u) == SelectSeq(S.fetches, LAMBDA f : f.teamUrl = u)

\* the step leaves team u's batch, with its queue, timers and retry
\* counter, and the POSTs in flight for u as they were
Untouched(u) ==
    /\ sender'.batches[u] = sender.batches[u]
    /\ sender.batches[u] # NoBatch
          => sender'.heap[sender.batches[u]] = sender.heap[sender.batches[u]]
    /\ FetchesOf(sender', u) = FetchesOf(sender, u)
    /\ (u \in sender'.suspendedTeams) = (u \in sender.suspendedTeams)

\* C27 Suspended team isolation: a team-state poll made while team T is
\* suspended sends no request to T and a roster refresh sends no request
\* to a team that is suspended; a poll made while some team is not
\* suspended polls exactly the teams that are not suspended; and the step
\* that suspends T (a 401 from ingest or from the poll) leaves the batch,
\* timers, retry counter and POSTs in flight of every other team as they
\* were.
SuspendedTeamIsolation ==
    [][/\ \A t \in PollTeams :
            /\ PollRequest(t) => t \notin poll'.skipped
            /\ RosterRequest(t) => t \notin sender.suspendedTeams
            /\ (t \notin sender.suspendedTeams /\ t \in sender'.suspendedTeams)
                  => \A u \in PollTeams \ {t} : Untouched(u)
       /\ (poll.pc = "idle" /\ poll'.pc = "await")
            => /\ poll'.skipped = sender.suspendedTeams
               /\ Range(poll'.teams) = PollTeams \ sender.suspendedTeams
      ]_vars

\* tA is suspended; the poll made since skips it and awaits tB, the roster
\* refresh awaits tB, and an event of tB has been delivered while tB's
\* queue holds another
OthersContinue ==
    /\ sender.suspendedTeams = {"tA"}
    /\ poll.pc = "await"
    /\ poll.skipped = {"tA"}
    /\ poll.teams = <<"tB">>
    /\ refresh.pc = "await"
    /\ refresh.i = 2
    /\ acked["tB"] # {}
    /\ Queue(sender, "tB") # <<>>

----------------------------------------------------------------------------
(* Properties of one run of the daemon *)

\* C28 Truncation reset: whenever a tracked journal is smaller than its
\* current offset, processing the file drops the state of the path and
\* reads the file again from byte 0, which leaves the current offset at
\* the size of the file.
TruncationReset ==
    \A f \in DOMAIN tracked :
        size[f] < CurrentOffset(Mem, f)
            => CurrentOffset(ProcessFile(Mem, f, repoLists), f) = size[f]

\* C29 Shutdown is single-shot and a second signal forces exit: the first
\* termination signal starts the drain, which flushes every queue, a
\* termination signal received while draining ends the process in that
\* step without a further POST, and the drain is started by the first
\* signal only.
SecondSignalForcesExit ==
    [][/\ signals' = signals + 1 =>
            IF phase = "running"
            THEN /\ phase' = "draining"
                 /\ \A t \in Teams : Queue(sender', t) = <<>>
            ELSE /\ phase' = "stopped"
                 /\ Len(sender'.fetches) <= Len(sender.fetches)
       /\ (phase # "draining" /\ phase' = "draining") => signals = 0
      ]_vars

\* C30 Draining accepts nothing new: while the daemon is draining no step
\* parses journal bytes (the read heads and the tracked files stay as they
\* are) and no step adds an event to the sender (what it holds, queued or
\* in flight, does not grow).
DrainingAcceptsNothing ==
    [][(phase = "draining" /\ phase' = "draining")
          => /\ readHeads' = readHeads
             /\ tracked' = tracked
             /\ Held(sender') <= Held(sender)
      ]_vars

----------------------------------------------------------------------------
(* Properties of the saves *)

\* C31 Atomic persistence: at every point of a save, and after a crash at
\* that point, the state file, the cache file and the mirror each hold a
\* complete document, the previous one or the new one, never an empty or a
\* partial one.
AtomicPersistence ==
    \A n \in FileNames : \E v \in 0..MaxSaves : files[n] = Doc(v)

----------------------------------------------------------------------------
(* Properties of the roster refresh over two journals *)

\* every repo name on some roster
Listed(lists) == UNION {lists[t] : t \in DOMAIN lists}

----------------------------------------------------------------------------
(* Properties of the matcher and the routing *)

\* the session was matched through sub-directories of its cwd
ParentSession == session.matched /\ DOMAIN session.sub_dir_repos # {}

\* the registered sub-directories the file of ev lies under
SubDirsOf(ev) ==
    {d \in DOMAIN session.sub_dir_repos :
        StartsWith(ev.file_path, session.cwd \o <<"/", d, "/">>)}

RoutedFrom(ev) == {e \in routed : e.from = ev}

\* C33 Parent-directory routing: in a session matched through
\* sub-directories, a FileOp under a registered sub-directory is enqueued to
\* every matched team with that sub-directory's repo and the path relative
\* to it, a FileOp outside every registered sub-directory is enqueued to no
\* team, and an event of another kind is enqueued with the primary repo.
ParentDirectoryRouting ==
    ParentSession =>
        \A ev \in session.done :
            IF ev.event_type # "file_op"
            THEN /\ \A t \in session.matched_teams :
                        \E e \in RoutedFrom(ev) : e.team = t
                 /\ \A e \in RoutedFrom(ev) :
                        e.repo_name = session.matched_repo
            ELSE IF SubDirsOf(ev) = {} THEN RoutedFrom(ev) = {}
            ELSE \A d \in SubDirsOf(ev) :
                    /\ \A t \in session.matched_teams :
                            \E e \in RoutedFrom(ev) : e.team = t
                    /\ \A e \in RoutedFrom(ev) :
                            /\ e.repo_name = session.sub_dir_repos[d]
                            /\ session.cwd \o <<"/", d, "/">> \o e.file_path
                                    = ev.file_path

FileOpOf(p) == [event_type |-> "file_op", file_path |-> p]

\* /w/mono/a/x.ts was routed to repo a as x.ts and /w/mono/d/y.ts dropped
RoutedOneDroppedOne ==
    /\ ParentSession
    /\ session.done = {FileOpOf(Mono \o PathOf(<<"a", "x.ts">>)),
                       FileOpOf(Mono \o PathOf(<<"d", "y.ts">>))}
    /\ \E e \in routed : e.repo_name = "a" /\ e.file_path = <<"x.ts">>

\* C34 Composite session ids: every FileOp routed in a session matched
\* through sub-directories carries the session id S:<repo> of the repo it
\* is routed to, the primary repo included.
CompositeSessionIds ==
    ParentSession =>
        \A e \in routed :
            e.event_type = "file_op" =>
                e.session_id = <<SessionId, ":", e.repo_name>>

\* C35 Git lookup memoization: git is run at most once in any directory
\* over all matchRepo calls, and a call with the cwd, rosters and gitCache of
\* the call before it returns the matches of the call before it.
GitLookupMemoized ==
    /\ [](\A p \in DOMAIN matcher.runs : matcher.runs[p] <= 1)
    /\ [][(/\ matcher.calls > 0
           /\ matcher'.calls = matcher.calls + 1
           /\ matcher'.last.cwd = matcher.last.cwd
           /\ matcher'.last.lists = matcher.last.lists
           /\ matcher'.last.cache = matcher.last.cache)
            => matcher'.last.matches = matcher.last.matches]_vars

\* C38 Routing respects rosters: every event enqueued for a team carries a
\* repo of that team's roster as it was when the journal was matched.
RoutingRespectsRosters ==
    session.matched =>
        \A e \in routed : e.repo_name \in session.lists[e.team]

----------------------------------------------------------------------------
(* Properties of the pending count *)

\* C36 In-flight events count as pending: while a POST is in flight the
\* sender reports a pending count above 0, and state.json holds no
\* byte_offset beyond the line an event of that POST was derived from.
InFlightCountsAsPending ==
    phase = "running" =>
        \A k \in 1..Len(sender.fetches) :
            /\ GetPendingCount(sender) > 0
            /\ \A i \in 1..Len(sender.fetches[k].events) :
                    Persisted(disk, sender.fetches[k].events[i].path)
                        <= sender.fetches[k].events[i].line

----------------------------------------------------------------------------
(* Properties of the accumulators *)

\* C37 Accumulator consistent with offset: the turn_number state.json
\* holds for a journal is the number of prompts in the bytes below its
\* byte_offset (every line of these journals is a prompt), and a prompt
\* that is derived again after a restart carries the turn_number it had.
AccumulatorConsistent ==
    /\ \A f \in DOMAIN disk : accum.saved[f] = disk[f].byte_offset
    /\ \A e1, e2 \in accum.derived :
            e1.path = e2.path /\ e1.line = e2.line => e1.turn = e2.turn

----------------------------------------------------------------------------
(* Properties of the sender under fairness *)

\* the events the sender holds for team t, queued or in flight
HeldBy(S, t) ==
    Range(Queue(S, t))
        \cup UNION {Range(S.fetches[k].events) : k \in InFlight(S, t)}

\* the answer to a POST of t that carried e came when its batch had used
\* up its retries
DroppedAfterMaxRetries(e, t) ==
    /\ Len(sender'.fetches) < Len(sender.fetches)
    /\ \E k \in InFlight(sender, t) :
            /\ e \in Range(sender.fetches[k].events)
            /\ sender.heap[sender.fetches[k].batch].retryCount = MAX_RETRIES

\* C39 Queue drains: with fair timers and answers the sender ends, for
\* every team that is not suspended, holding no event and reporting a
\* pending count of 0; an event leaves the sender of such a team only
\* acknowledged by a 2xx POST or dropped after max_retries; and a team that
\* is not suspended never has queued events without a flush timer, a retry
\* timer or a POST in flight.
QueueDrains ==
    /\ <>[](/\ GetPendingCount(sender) = 0
            /\ \A t \in ApiTeams :
                    t \in sender.suspendedTeams \/ HeldBy(sender, t) = {})
    /\ [][\A t \in ApiTeams \ sender'.suspendedTeams :
            \A e \in HeldBy(sender, t) \ HeldBy(sender', t) :
                e \in acked'[t] \/ DroppedAfterMaxRetries(e, t)]_vars
    /\ [](\A t \in ApiTeams \ sender.suspendedTeams :
            Queue(sender, t) # <<>> =>
                \/ sender.heap[sender.batches[t]].timer
                \/ sender.heap[sender.batches[t]].retryTimer
                \/ InFlight(sender, t) # {})

\* the first event was dropped after max_retries, the second one
\* acknowledged, and the sender holds nothing
DrainedAfterDrop ==
    /\ sender.suspendedTeams = {}
    /\ nAdded = RetryAdds
    /\ HeldBy(sender, "tA") = {}
    /\ posts[1] = MAX_RETRIES + 1
    /\ Event("-", 1) \notin acked["tA"]
    /\ Event("-", 2) \in acked["tA"]

----------------------------------------------------------------------------
(* Properties of the backfill command *)

\* C40 Backfill survives the restart: the daemon started after the
\* command's reset and SIGTERM loads byte_offset 0 from state.json for
\* every journal the command reset.
BackfillSurvivesRestart ==
    [][backfill.pc = "reset" /\ phase = "stopped" /\ phase' = "running" =>
        \A f \in backfill.files : Persisted(disk, f) = 0]_vars

============================================================================
